---------------------------- MODULE Spec2Model ----------------------------
(***************************************************************************)
(* neartalk: the chat server (chatServer), its rooms (chatRoom), the       *)
(* room pipeline goroutine (chatRoom.start), the per-connection goroutine  *)
(* (chatServer.connect) and the message handlers (handleMsg and the        *)
(* renderers).                                                             *)
(*                                                                         *)
(* Strings are sequences of tokens.  A token is one character of a text    *)
(* ("A", "2", " ", "<", "\\u0301", ...; TokenOrder lists them), one byte  *)
(* that is not valid UTF-8 ("\\xFF"), or one fixed phrase of the server    *)
(* (" has joined").  HTML sent over the websocket is a sequence of parts,  *)
(* one record per element the renderers emit; the empty sequence is the    *)
(* empty string.                                                           *)
(***************************************************************************)
EXTENDS Integers, Sequences, FiniteSets, TLC

\* ------------------------------------------------------------------ bounds

\* Capacity of client.outgoing.  The program's value is 16; the model scales
\* it down so that a full queue is reached.
clientMsgBuffer == 2

\* Capacity of chatRoom.incoming.  The program's value is 20; scaled down.
serverMsgBuffer == 2

\* Number of texts the connections read from their websockets, in all.
MaxSends == 2

\* rate.NewLimiter(rate.Every(100ms), 8): the burst.  The program's value is
\* 8; scaled down.
limiterBurst == 1

\* --------------------------------------------------------- program constants

maxNickLen == 30
maxMsgTextLen == 512

\* ------------------------------------------------------------------ universe

\* One client object per accepted websocket connection, named in the order
\* in which the connections get roomsMu in cs.addClient.
ClientOrder == <<"c1", "c2">>

Clients == {ClientOrder[i] : i \in 1..Len(ClientOrder)}

\* Values getIPString returns for the connections.
IPs == {<<"ip1">>}

\* Keys cs.rooms and cs.removeClient take: the values of getIPString, and one
\* that no connection has.
Keys == IPs \cup {<<"ip0">>}

\* chatRoom instances, in order of creation by newChatRoom.  Every creation
\* is followed by the admission of the connection that caused it.
RoomIds == 1..Cardinality(Clients)

\* data.Adjectives x data.Animals after CamelCase, as genNick composes them.
GenNicks == {<<"A">>}

\* Texts a websocket delivers (htmxJson.Msg).
Texts ==
    { <<"h", "i">>,
      <<" ">>,
      <<"/", "n", "i", "c", "k", " ", "A", "2">>,
      <<"/", "n", "i", "c", "k", " ", " ">> }

\* ------------------------------------------------------------- string helpers

\* The alphabet of the model with the code point of every token: the ASCII
\* characters that are white space or printable, the white space of
\* Unicode, the punctuation urlRe names, the two characters that fold to an
\* ASCII letter, the combining grave and acute accents with what they
\* compose to, the combining grapheme joiner, the zero width joiner, two regional indicators, an emoji and
\* the replacement character.  "\\xFF" is the token of a byte that is not
\* valid UTF-8; it is greater than every byte of a valid string.
TokenOrder ==
    { <<"\t", 9>>, <<"\n", 10>>, <<"\\x0B", 11>>, <<"\f", 12>>,
       <<"\r", 13>>, <<" ", 32>>, <<"!", 33>>, <<"\"", 34>>, <<"#", 35>>,
       <<"$", 36>>, <<"%", 37>>, <<"&", 38>>, <<"'", 39>>, <<"(", 40>>,
       <<")", 41>>, <<"*", 42>>, <<"+", 43>>, <<",", 44>>, <<"-", 45>>,
       <<".", 46>>, <<"/", 47>>, <<"0", 48>>, <<"1", 49>>, <<"2", 50>>,
       <<"3", 51>>, <<"4", 52>>, <<"5", 53>>, <<"6", 54>>, <<"7", 55>>,
       <<"8", 56>>, <<"9", 57>>, <<":", 58>>, <<";", 59>>, <<"<", 60>>,
       <<"=", 61>>, <<">", 62>>, <<"?", 63>>, <<"@", 64>>, <<"A", 65>>,
       <<"B", 66>>, <<"C", 67>>, <<"D", 68>>, <<"E", 69>>, <<"F", 70>>,
       <<"G", 71>>, <<"H", 72>>, <<"I", 73>>, <<"J", 74>>, <<"K", 75>>,
       <<"L", 76>>, <<"M", 77>>, <<"N", 78>>, <<"O", 79>>, <<"P", 80>>,
       <<"Q", 81>>, <<"R", 82>>, <<"S", 83>>, <<"T", 84>>, <<"U", 85>>,
       <<"V", 86>>, <<"W", 87>>, <<"X", 88>>, <<"Y", 89>>, <<"Z", 90>>,
       <<"[", 91>>, <<"\\", 92>>, <<"]", 93>>, <<"^", 94>>, <<"_", 95>>,
       <<"\\x60", 96>>, <<"a", 97>>, <<"b", 98>>, <<"c", 99>>, <<"d", 100>>,
       <<"e", 101>>, <<"f", 102>>, <<"g", 103>>, <<"h", 104>>, <<"i", 105>>,
       <<"j", 106>>, <<"k", 107>>, <<"l", 108>>, <<"m", 109>>, <<"n", 110>>,
       <<"o", 111>>, <<"p", 112>>, <<"q", 113>>, <<"r", 114>>, <<"s", 115>>,
       <<"t", 116>>, <<"u", 117>>, <<"v", 118>>, <<"w", 119>>, <<"x", 120>>,
       <<"y", 121>>, <<"z", 122>>, <<"{", 123>>, <<"|", 124>>, <<"}", 125>>,
       <<"~", 126>>, <<"\\u0085", 133>>, <<"\\u00A0", 160>>,
       <<"\\u00AB", 171>>, <<"\\u00BB", 187>>, <<"\\u00C0", 192>>,
       <<"\\u00C1", 193>>, <<"\\u00C8", 200>>, <<"\\u00C9", 201>>,
       <<"\\u00CC", 204>>, <<"\\u00CD", 205>>, <<"\\u00D2", 210>>,
       <<"\\u00D3", 211>>, <<"\\u00D9", 217>>, <<"\\u00DA", 218>>,
       <<"\\u00DD", 221>>, <<"\\u00E0", 224>>, <<"\\u00E1", 225>>,
       <<"\\u00E8", 232>>, <<"\\u00E9", 233>>, <<"\\u00EC", 236>>,
       <<"\\u00ED", 237>>, <<"\\u00F2", 242>>, <<"\\u00F3", 243>>,
       <<"\\u00F9", 249>>, <<"\\u00FA", 250>>, <<"\\u00FD", 253>>,
       <<"\\u0106", 262>>, <<"\\u0107", 263>>, <<"\\u0139", 313>>,
       <<"\\u013A", 314>>, <<"\\u0143", 323>>, <<"\\u0144", 324>>,
       <<"\\u0154", 340>>, <<"\\u0155", 341>>, <<"\\u015A", 346>>,
       <<"\\u015B", 347>>, <<"\\u0179", 377>>, <<"\\u017A", 378>>,
       <<"\\u017F", 383>>, <<"\\u01F4", 500>>, <<"\\u01F5", 501>>,
       <<"\\u01F8", 504>>, <<"\\u01F9", 505>>, <<"\\u0300", 768>>,
       <<"\\u0301", 769>>, <<"\\u034F", 847>>, <<"\\u1680", 5760>>, <<"\\u1E30", 7728>>,
       <<"\\u1E31", 7729>>, <<"\\u1E3E", 7742>>, <<"\\u1E3F", 7743>>,
       <<"\\u1E54", 7764>>, <<"\\u1E55", 7765>>, <<"\\u1E80", 7808>>,
       <<"\\u1E81", 7809>>, <<"\\u1E82", 7810>>, <<"\\u1E83", 7811>>,
       <<"\\u1EF2", 7922>>, <<"\\u1EF3", 7923>>, <<"\\u2000", 8192>>,
       <<"\\u2001", 8193>>, <<"\\u2002", 8194>>, <<"\\u2003", 8195>>,
       <<"\\u2004", 8196>>, <<"\\u2005", 8197>>, <<"\\u2006", 8198>>,
       <<"\\u2007", 8199>>, <<"\\u2008", 8200>>, <<"\\u2009", 8201>>,
       <<"\\u200A", 8202>>, <<"\\u200D", 8205>>, <<"\\u2018", 8216>>,
       <<"\\u2019", 8217>>, <<"\\u201C", 8220>>, <<"\\u201D", 8221>>,
       <<"\\u2028", 8232>>, <<"\\u2029", 8233>>, <<"\\u202F", 8239>>,
       <<"\\u205F", 8287>>, <<"\\u212A", 8490>>, <<"\\u3000", 12288>>,
       <<"\\uFFFD", 65533>>, <<"\\U0001F1E6", 127462>>,
       <<"\\U0001F1E8", 127464>>, <<"\\U0001F600", 128512>>,
       <<"\\xFF", 1114112>> }

\* The least element of the set S of numbers, 0 when S is empty.
FirstOf(S) == IF S = {} THEN 0 ELSE CHOOSE e \in S : \A f \in S : e <= f

\* The greatest element of the set S of numbers, 0 when S is empty.
LastOf(S) == IF S = {} THEN 0 ELSE CHOOSE e \in S : \A f \in S : f <= e

\* The code point of a token, 0 for a token TokenOrder does not list (a
\* server phrase).  The byte order of UTF-8 is the order of the code points.
TokenRank(ch) == LastOf({p[2] : p \in {q \in TokenOrder : q[1] = ch}})

\* The bytes of a token in UTF-8 (utf8.EncodeRune); the token of an invalid
\* byte is one byte.
EncodeRune(ch) ==
    LET cp == TokenRank(ch)
    IN  IF ch = "\\xFF" THEN <<255>>
        ELSE IF cp < 128 THEN <<cp>>
        ELSE IF cp < 2048
        THEN <<192 + (cp \div 64), 128 + (cp % 64)>>
        ELSE IF cp < 65536
        THEN <<224 + (cp \div 4096), 128 + ((cp \div 64) % 64),
               128 + (cp % 64)>>
        ELSE <<240 + (cp \div 262144), 128 + ((cp \div 4096) % 64),
               128 + ((cp \div 64) % 64), 128 + (cp % 64)>>

\* strings.HasPrefix
HasPrefix(s, p) == Len(s) >= Len(p) /\ SubSeq(s, 1, Len(p)) = p

\* unicode.IsSpace: the characters with the property White_Space.
IsSpace(ch) ==
    ch \in {"\t", "\n", "\\x0B", "\f", "\r", " ", "\\u0085", "\\u00A0",
            "\\u1680", "\\u2000", "\\u2001", "\\u2002", "\\u2003", "\\u2004",
            "\\u2005", "\\u2006", "\\u2007", "\\u2008", "\\u2009", "\\u200A",
            "\\u2028", "\\u2029", "\\u202F", "\\u205F", "\\u3000"}

RECURSIVE TrimSpace(_)
\* strings.TrimSpace: s without the white space at its start and at its end.
TrimSpace(s) ==
    IF s = <<>> THEN s
    ELSE IF IsSpace(Head(s)) THEN TrimSpace(Tail(s))
    ELSE IF IsSpace(s[Len(s)]) THEN TrimSpace(SubSeq(s, 1, Len(s) - 1))
    ELSE s

\* strings.ToValidUTF8(s, "�"): every run of invalid bytes becomes one
\* replacement character.
RECURSIVE ToValidUTF8(_)
ToValidUTF8(s) ==
    IF s = <<>> THEN <<>>
    ELSE IF Head(s) = "\\xFF"
         THEN LET rest == ToValidUTF8(Tail(s))
              IN  IF Tail(s) # <<>> /\ Head(Tail(s)) = "\\xFF"
                  THEN rest
                  ELSE <<"\\uFFFD">> \o rest
         ELSE <<Head(s)>> \o ToValidUTF8(Tail(s))

\* The canonical decompositions of the alphabet: a letter and its accent,
\* or the one character a singleton stands for.
Decompositions ==
    <<<<"\\u00C0", <<"A", "\\u0300">>>>, <<"\\u00C1", <<"A", "\\u0301">>>>,
       <<"\\u00C8", <<"E", "\\u0300">>>>, <<"\\u00C9", <<"E", "\\u0301">>>>,
       <<"\\u00CC", <<"I", "\\u0300">>>>, <<"\\u00CD", <<"I", "\\u0301">>>>,
       <<"\\u00D2", <<"O", "\\u0300">>>>, <<"\\u00D3", <<"O", "\\u0301">>>>,
       <<"\\u00D9", <<"U", "\\u0300">>>>, <<"\\u00DA", <<"U", "\\u0301">>>>,
       <<"\\u00DD", <<"Y", "\\u0301">>>>, <<"\\u00E0", <<"a", "\\u0300">>>>,
       <<"\\u00E1", <<"a", "\\u0301">>>>, <<"\\u00E8", <<"e", "\\u0300">>>>,
       <<"\\u00E9", <<"e", "\\u0301">>>>, <<"\\u00EC", <<"i", "\\u0300">>>>,
       <<"\\u00ED", <<"i", "\\u0301">>>>, <<"\\u00F2", <<"o", "\\u0300">>>>,
       <<"\\u00F3", <<"o", "\\u0301">>>>, <<"\\u00F9", <<"u", "\\u0300">>>>,
       <<"\\u00FA", <<"u", "\\u0301">>>>, <<"\\u00FD", <<"y", "\\u0301">>>>,
       <<"\\u0106", <<"C", "\\u0301">>>>, <<"\\u0107", <<"c", "\\u0301">>>>,
       <<"\\u0139", <<"L", "\\u0301">>>>, <<"\\u013A", <<"l", "\\u0301">>>>,
       <<"\\u0143", <<"N", "\\u0301">>>>, <<"\\u0144", <<"n", "\\u0301">>>>,
       <<"\\u0154", <<"R", "\\u0301">>>>, <<"\\u0155", <<"r", "\\u0301">>>>,
       <<"\\u015A", <<"S", "\\u0301">>>>, <<"\\u015B", <<"s", "\\u0301">>>>,
       <<"\\u0179", <<"Z", "\\u0301">>>>, <<"\\u017A", <<"z", "\\u0301">>>>,
       <<"\\u01F4", <<"G", "\\u0301">>>>, <<"\\u01F5", <<"g", "\\u0301">>>>,
       <<"\\u01F8", <<"N", "\\u0300">>>>, <<"\\u01F9", <<"n", "\\u0300">>>>,
       <<"\\u1E30", <<"K", "\\u0301">>>>, <<"\\u1E31", <<"k", "\\u0301">>>>,
       <<"\\u1E3E", <<"M", "\\u0301">>>>, <<"\\u1E3F", <<"m", "\\u0301">>>>,
       <<"\\u1E54", <<"P", "\\u0301">>>>, <<"\\u1E55", <<"p", "\\u0301">>>>,
       <<"\\u1E80", <<"W", "\\u0300">>>>, <<"\\u1E81", <<"w", "\\u0300">>>>,
       <<"\\u1E82", <<"W", "\\u0301">>>>, <<"\\u1E83", <<"w", "\\u0301">>>>,
       <<"\\u1EF2", <<"Y", "\\u0300">>>>, <<"\\u1EF3", <<"y", "\\u0300">>>>,
       <<"\\u2000", <<"\\u2002">>>>, <<"\\u2001", <<"\\u2003">>>>,
       <<"\\u212A", <<"K">>>> >>

\* norm.maxNonStarters: the non-starters norm lets follow one another
\* before it puts a combining grapheme joiner between them (the Stream-Safe
\* Text Format).
maxNonStarters == 30

\* The composition step of norm.NFC for the accent t behind the composed
\* string out: t combines with the last token of out when the two are the
\* decomposition of a character.  Both accents of the alphabet have the
\* combining class 230, so an accent that did not combine blocks the next,
\* and so does the joiner, a starter.
NFCPut(out, t) ==
    IF out # <<>> /\ \E i \in 1..Len(Decompositions) :
                        Decompositions[i][2] = <<out[Len(out)], t>>
    THEN SubSeq(out, 1, Len(out) - 1)
         \o <<Decompositions[CHOOSE i \in 1..Len(Decompositions) :
                  Decompositions[i][2] = <<out[Len(out)], t>>][1]>>
    ELSE Append(out, t)

\* One step of norm.NFC.String: prev is the count of streamSafe and the
\* composed string before the token t.  The count is of the non-starters
\* since the last starter, the accent a character ends in when decomposed
\* included.  t is decomposed and composed with what is before it; an
\* accent that would be non-starter maxNonStarters + 1 gets U+034F before
\* it and starts the count again.
NFCStep(prev, t) ==
    IF t \in {"\\u0300", "\\u0301"}
    THEN IF prev[1] + 1 > maxNonStarters
         THEN <<1, NFCPut(Append(prev[2], "\\u034F"), t)>>
         ELSE <<prev[1] + 1, NFCPut(prev[2], t)>>
    ELSE IF \E i \in 1..Len(Decompositions) : Decompositions[i][1] = t
    THEN LET d == Decompositions[CHOOSE i \in 1..Len(Decompositions) :
                                     Decompositions[i][1] = t][2]
         IN  IF Len(d) = 1
             THEN <<0, Append(prev[2], d[1])>>
             ELSE <<1, NFCPut(Append(prev[2], d[1]), d[2])>>
    ELSE <<0, Append(prev[2], t)>>

RECURSIVE NFCScan(_, _)
\* The count of streamSafe and the composed string after the first n tokens
\* of s, from left to right.
NFCScan(s, n) ==
    IF n = 0 THEN <<0, <<>>>> ELSE NFCStep(NFCScan(s, n - 1), s[n])

\* norm.NFC.String
NFC(s) == NFCScan(s, Len(s))[2]

\* uniseg's property: the Grapheme_Cluster_Break property of a token.
property(ch) ==
    CASE ch = "\r" -> "prCR"
      [] ch = "\n" -> "prLF"
      [] ch \in {"\t", "\\x0B", "\f", "\\u0085", "\\u2028", "\\u2029"} -> "prControl"
      [] ch \in {"\\u0300", "\\u0301", "\\u034F"} -> "prExtend"
      [] ch = "\\u200D" -> "prZWJ"
      [] ch \in {"\\U0001F1E6", "\\U0001F1E8"} -> "prRegionalIndicator"
      [] ch = "\\U0001F600" -> "prExtendedPictographic"
      [] OTHER -> "prAny"

\* uniseg's grTransitions (v0.2.0), the entries of the map: the state of the
\* parser and the property of the next character, and for them the new
\* state, whether a cluster ends before that character, and the number of
\* the rule.
grTransitions ==
    { <<<<"grAny", "prCR">>, <<"grCR", "grBoundary", 50>>>>,
      <<<<"grAny", "prLF">>, <<"grControlLF", "grBoundary", 50>>>>,
      <<<<"grAny", "prControl">>, <<"grControlLF", "grBoundary", 50>>>>,
      <<<<"grCR", "prAny">>, <<"grAny", "grBoundary", 40>>>>,
      <<<<"grControlLF", "prAny">>, <<"grAny", "grBoundary", 40>>>>,
      <<<<"grCR", "prLF">>, <<"grAny", "grNoBoundary", 30>>>>,
      <<<<"grAny", "prL">>, <<"grL", "grBoundary", 9990>>>>,
      <<<<"grL", "prL">>, <<"grL", "grNoBoundary", 60>>>>,
      <<<<"grL", "prV">>, <<"grLVV", "grNoBoundary", 60>>>>,
      <<<<"grL", "prLV">>, <<"grLVV", "grNoBoundary", 60>>>>,
      <<<<"grL", "prLVT">>, <<"grLVTT", "grNoBoundary", 60>>>>,
      <<<<"grAny", "prLV">>, <<"grLVV", "grBoundary", 9990>>>>,
      <<<<"grAny", "prV">>, <<"grLVV", "grBoundary", 9990>>>>,
      <<<<"grLVV", "prV">>, <<"grLVV", "grNoBoundary", 70>>>>,
      <<<<"grLVV", "prT">>, <<"grLVTT", "grNoBoundary", 70>>>>,
      <<<<"grAny", "prLVT">>, <<"grLVTT", "grBoundary", 9990>>>>,
      <<<<"grAny", "prT">>, <<"grLVTT", "grBoundary", 9990>>>>,
      <<<<"grLVTT", "prT">>, <<"grLVTT", "grNoBoundary", 80>>>>,
      <<<<"grAny", "prExtend">>, <<"grAny", "grNoBoundary", 90>>>>,
      <<<<"grAny", "prZWJ">>, <<"grAny", "grNoBoundary", 90>>>>,
      <<<<"grAny", "prSpacingMark">>, <<"grAny", "grNoBoundary", 91>>>>,
      <<<<"grAny", "prPreprend">>, <<"grPrepend", "grBoundary", 9990>>>>,
      <<<<"grPrepend", "prAny">>, <<"grAny", "grNoBoundary", 92>>>>,
      <<<<"grAny", "prExtendedPictographic">>, <<"grExtendedPictographic", "grBoundary", 9990>>>>,
      <<<<"grExtendedPictographic", "prExtend">>, <<"grExtendedPictographic", "grNoBoundary", 110>>>>,
      <<<<"grExtendedPictographic", "prZWJ">>, <<"grExtendedPictographicZWJ", "grNoBoundary", 110>>>>,
      <<<<"grExtendedPictographicZWJ", "prExtendedPictographic">>, <<"grExtendedPictographic", "grNoBoundary", 110>>>>,
      <<<<"grAny", "prRegionalIndicator">>, <<"grRIOdd", "grBoundary", 9990>>>>,
      <<<<"grRIOdd", "prRegionalIndicator">>, <<"grRIEven", "grNoBoundary", 120>>>>,
      <<<<"grRIEven", "prRegionalIndicator">>, <<"grRIOdd", "grBoundary", 120>>>> }
\* The transition Graphemes.Next takes in state on a character of the
\* property prop, found being the entries of the map for the keys Next
\* looks up: the one of the state and the property; else, when the state
\* has one for any property and the property one from any state, of the two
\* the one of the lower rule, the property's when the rules are equal; else
\* the one there is; else a boundary and the state grAny.
applicable(found, state, prop) ==
    LET specific == {t[2] : t \in {u \in found : u[1] = <<state, prop>>}}
        anyProp == {t[2] : t \in {u \in found : u[1] = <<state, "prAny">>}}
        anyState == {t[2] : t \in {u \in found : u[1] = <<"grAny", prop>>}}
    IN  IF specific # {} THEN specific
        ELSE IF anyProp # {} /\ anyState # {}
        THEN IF \E p \in anyProp : \E q \in anyState : p[3] < q[3]
             THEN anyProp
             ELSE anyState
        ELSE IF anyProp # {} THEN anyProp
        ELSE IF anyState # {} THEN anyState
        ELSE {<<"grAny", "grBoundary", 9990>>}

\* The lookups of Graphemes.Next in grTransitions and the transition it
\* takes: the new state, whether a cluster ends, the rule.
transition(state, prop) ==
    CHOOSE t \in applicable({u \in grTransitions :
                                u[1] \in {<<state, prop>>, <<state, "prAny">>,
                                          <<"grAny", prop>>}},
                            state, prop) : TRUE

RECURSIVE ClusterStartsFrom(_, _, _)
\* The loop of Graphemes.Next from the character s[pos] on, the parser
\* being in state: the indices where a cluster starts.  One starts at the
\* first character and wherever the transition says a boundary.
ClusterStartsFrom(s, pos, state) ==
    IF pos > Len(s) THEN {}
    ELSE LET t == transition(state, property(s[pos]))
         IN  (IF pos = 1 \/ t[2] = "grBoundary" THEN {pos} ELSE {})
             \cup ClusterStartsFrom(s, pos + 1, t[1])

\* Indices of s where a grapheme cluster starts, as uniseg.NewGraphemes and
\* Graphemes.Next find them.
ClusterStarts(s) == ClusterStartsFrom(s, 1, "grAny")

\* The uniseg loops of sanitizeNick and renderMsgText: the first n grapheme
\* clusters of s, whole.
TruncateGraphemes(s, n) ==
    IF Len(s) <= n \/ Cardinality(ClusterStarts(s)) <= n THEN s
    ELSE LET next == CHOOSE i \in ClusterStarts(s) :
                         Cardinality({j \in ClusterStarts(s) : j < i}) = n
         IN  SubSeq(s, 1, next - 1)

\* html.EscapeString on one token.
EscapeChar(ch) ==
    CASE ch = "<"  -> <<"&", "l", "t", ";">>
      [] ch = ">"  -> <<"&", "g", "t", ";">>
      [] ch = "&"  -> <<"&", "a", "m", "p", ";">>
      [] ch = "'"  -> <<"&", "#", "3", "9", ";">>
      [] ch = "\"" -> <<"&", "#", "3", "4", ";">>
      [] OTHER     -> <<ch>>

RECURSIVE EscapeString(_)
\* html.EscapeString
EscapeString(s) ==
    IF s = <<>> THEN <<>> ELSE EscapeChar(Head(s)) \o EscapeString(Tail(s))

RECURSIVE Itoa(_)
\* strconv of a non-negative integer, as fmt's %d prints it.
Itoa(n) ==
    IF n < 10 THEN <<(<<"0", "1", "2", "3", "4", "5", "6", "7", "8", "9">>)[n + 1]>>
    ELSE Itoa(n \div 10) \o Itoa(n % 10)

\* sort.Strings order on token sequences: byte-wise, which is element-wise
\* by code point, a proper prefix first.
RECURSIVE StrLess(_, _)
StrLess(a, b) ==
    IF b = <<>> THEN FALSE
    ELSE IF a = <<>> THEN TRUE
    ELSE IF Head(a) = Head(b) THEN StrLess(Tail(a), Tail(b))
    ELSE TokenRank(Head(a)) < TokenRank(Head(b))

RECURSIVE SortStrings(_, _)
\* sort.Strings on the strings nk[c], c in S (equal strings are all kept).
SortStrings(nk, S) ==
    IF S = {} THEN <<>>
    ELSE LET m == CHOOSE x \in S : \A y \in S : ~StrLess(nk[y], nk[x])
         IN  <<nk[m]>> \o SortStrings(nk, S \ {m})

\* ------------------------------------------------------------------ rendering

\* The nil *client of a msg the server made.
NoClient == "nil"

\* clearInputFieldMsg
clearInputFieldMsg == <<[tag |-> "input"]>>

\* The character classes of urlRe.  Under (?i) the classes [a-z] and \w take
\* both cases of a letter and the two characters that fold to one, U+017F
\* (to s) and U+212A (to k); \s is the ASCII class of Go's regexp.
Letters ==
    {"a", "b", "c", "d", "e", "f", "g", "h", "i", "j", "k", "l", "m",
     "n", "o", "p", "q", "r", "s", "t", "u", "v", "w", "x", "y", "z",
     "A", "B", "C", "D", "E", "F", "G", "H", "I", "J", "K", "L", "M",
     "N", "O", "P", "Q", "R", "S", "T", "U", "V", "W", "X", "Y", "Z",
     "\\u017F", "\\u212A"}

\* [a-z0-9], without regard to case
IsAlnum(ch) == ch \in Letters \cup {"0", "1", "2", "3", "4", "5", "6", "7", "8", "9"}

\* \w, without regard to case
IsWord(ch) == IsAlnum(ch) \/ ch = "_"

\* The word characters of \b (syntax.IsWordChar): ASCII letters, digits
\* and "_"; (?i) does not change them.
IsWordChar(ch) == IsWord(ch) /\ ch \notin {"\\u017F", "\\u212A"}

\* [\w.+-]
IsSchemeChar(ch) == IsWord(ch) \/ ch \in {".", "+", "-"}

\* \s
IsReSpace(ch) == ch \in {" ", "\t", "\n", "\f", "\r"}

\* [^\s()<>]
IsUrlChar(ch) == ~IsReSpace(ch) /\ ch \notin {"(", ")", "<", ">"}

\* The last class of urlRe: no white space and none of the punctuation a
\* sentence puts behind a URL.  "\\x60" is the token of the grave accent, as
\* urlRe writes it.
IsUrlEnd(ch) ==
    /\ ~IsReSpace(ch)
    /\ ch \notin {"\\x60", "!", "(", ")", "[", "]", "{", "}", ";", ":", "'", "\"",
                  ".", ",", "<", ">", "?", "\\u00AB", "\\u00BB", "\\u201C",
                  "\\u201D", "\\u2018", "\\u2019"}

\* s[a..b] is ([^\s()<>]+|(\([^\s()<>]+\)))*: runs of URL characters and
\* bracketed runs that are not empty.
UrlGroupInner(s, a, b) ==
    /\ \A x \in a..b : IsUrlChar(s[x]) \/ s[x] \in {"(", ")"}
    /\ \A x \in a..b : s[x] = "(" =>
          \E y \in (x + 2)..b :
              s[y] = ")" /\ \A z \in (x + 1)..(y - 1) : IsUrlChar(s[z])
    /\ \A y \in a..b : s[y] = ")" =>
          \E x \in a..(y - 2) :
              s[x] = "(" /\ \A z \in (x + 1)..(y - 1) : IsUrlChar(s[z])

\* Where the bracketed group \(( ... )*\) that starts at s[j] ends, 0 when
\* none starts there.
UrlGroupEnd(s, j) ==
    FirstOf({e \in (j + 1)..Len(s) :
                s[j] = "(" /\ s[e] = ")" /\ UrlGroupInner(s, j + 1, e - 1)})

\* s[x] is a letter, a digit or "%".
IsUrlFirst(s, x) == x <= Len(s) /\ (IsAlnum(s[x]) \/ s[x] = "%")

\* Where the part of urlRe behind the ":" at s[k] can start: after one to
\* three "/" or, with or without a "?" or "+" before it, after a letter, a
\* digit or "%".
UrlBodyStartsAfter(s, k) ==
    {b \in (k + 2)..(k + 4) :
        b <= Len(s) + 1 /\ \A x \in (k + 1)..(b - 1) : s[x] = "/"}
    \cup {b \in {k + 2} : IsUrlFirst(s, k + 1)}
    \cup {b \in {k + 3} :
            k + 1 <= Len(s) /\ s[k + 1] \in {"?", "+"} /\ IsUrlFirst(s, k + 2)}

\* Where the scheme of a match that starts at s[i] ends: k is the first
\* position behind i that holds no scheme character, 0 when there is none.
UrlBodyStartsAt(s, i, k) ==
    IF k < i + 2 \/ s[k] # ":" THEN {} ELSE UrlBodyStartsAfter(s, k)

\* Where the part of urlRe behind the scheme can start for a match that
\* starts at s[i]: \b holds before s[i], which is a letter, at least one
\* scheme character follows, then ":".
UrlBodyStarts(s, i) ==
    IF s[i] \in Letters /\ (IsWordChar(s[i]) <=> ~(i > 1 /\ IsWordChar(s[i - 1])))
    THEN UrlBodyStartsAt(s, i, FirstOf({k \in (i + 1)..Len(s) : ~IsSchemeChar(s[k])}))
    ELSE {}

\* The positions j reaches when the middle part of urlRe has reached the
\* positions before: j - 1 holds a URL character, or a group ends there.
UrlReachStep(s, before, j) ==
    IF \/ (j - 1) \in before /\ IsUrlChar(s[j - 1])
       \/ \E k \in before : UrlGroupEnd(s, k) = j - 1
    THEN before \cup {j}
    ELSE before

RECURSIVE UrlReachTo(_, _, _)
\* The positions up to j the repeated middle part of urlRe can reach from
\* b: after any number of URL characters and bracketed groups.
UrlReachTo(s, b, j) ==
    IF j <= b THEN {b} ELSE UrlReachStep(s, UrlReachTo(s, b, j - 1), j)

\* Where the match of urlRe that starts at s[i] ends, 0 when none starts
\* there: its quantifiers are greedy, so of the matches from i Go's regexp
\* takes the longest.
UrlMatchEnd(s, i) ==
    LastOf(UNION {
             {e \in 1..Len(s) :
                \E j \in UrlReachTo(s, b, Len(s) + 1) \ {b} :
                   /\ j <= Len(s)
                   /\ \/ e = j /\ IsUrlEnd(s[j])
                      \/ e = UrlGroupEnd(s, j)} :
             b \in UrlBodyStarts(s, i)})

\* What the func of renderMsgText makes of a match: the link.
Anchor(urlText) ==
    <<"<a href=\"">> \o urlText
        \o <<"\" target=\"_blank\" rel=\"noopener noreferrer\">">> \o urlText
        \o <<"</a>">>

RECURSIVE Linkify(_, _)

\* The text from pos with the match s[i..e] replaced by its link, and what
\* follows the match linkified in turn.
LinkifyMatch(s, pos, i, e) ==
    SubSeq(s, pos, i - 1) \o Anchor(SubSeq(s, i, e)) \o Linkify(s, e + 1)

\* The text from pos when its first match starts at s[i]; i is 0 when
\* there is no match.
LinkifyAt(s, pos, i) ==
    IF i = 0 THEN SubSeq(s, pos, Len(s)) ELSE LinkifyMatch(s, pos, i, UrlMatchEnd(s, i))

\* urlRe.ReplaceAllStringFunc on s from position pos: the matches from left
\* to right, none overlapping another, each replaced by its link.
Linkify(s, pos) ==
    LinkifyAt(s, pos, FirstOf({i \in pos..Len(s) : UrlMatchEnd(s, i) # 0}))

\* renderMsgText: sanitise, truncate by graphemes, escape, linkify.
renderMsgText(text) ==
    Linkify(EscapeString(TruncateGraphemes(TrimSpace(ToValidUTF8(text)),
                                           maxMsgTextLen)), 1)

\* An isMsgTextValid that takes every text: with it a blank chat line is
\* rendered and sent, which EmptyChatDropped excludes.
isMsgTextValidAlways(s) == TRUE

\* isMsgTextValid
isMsgTextValid(s) == s # <<>>

\* sanitizeNick
sanitizeNick(n) ==
    EscapeString(TruncateGraphemes(NFC(TrimSpace(ToValidUTF8(n))), maxNickLen))

\* createChatMsg: <<author, nonAuthor>>, both empty for an invalid text.
createChatMsg(m) ==
    LET sanitizedMsgText == renderMsgText(m.text)
    IN  IF ~isMsgTextValid(sanitizedMsgText) THEN << <<>>, <<>> >>
        ELSE << <<[tag |-> "tr", ts |-> m.when, nick |-> m.nick,
                   text |-> sanitizedMsgText, class |-> "my"]>>,
                <<[tag |-> "tr", ts |-> m.when, nick |-> m.nick,
                   text |-> sanitizedMsgText, class |-> ""]>> >>

\* createUserListMsg
createUserListMsg(nks) ==
    <<[tag |-> "users-list", nicks |-> nks, count |-> Len(nks)]>>

\* createSpecialMsg; t is time.Now(), 0 stands for the empty timestamp.
createSpecialMsg(text, class, t) ==
    <<[tag |-> "special", ts |-> IF class = "notif" THEN t ELSE 0,
       class |-> class, text |-> EscapeString(text)]>>

\* The msg struct; id is the position of the msg in the order of sends on
\* its room's incoming channel (0 until it is sent).
Msg(nk, text, author, when, raw) ==
    [nick |-> nk, text |-> text, author |-> author, when |-> when,
     raw |-> raw, id |-> 0]

NoMsg == Msg(<<>>, <<>>, NoClient, 0, <<>>)

\* A createJoinMsg whose list of users leaves out the client that joined:
\* with it the list is the one from before the admission, which
\* JoinMsgOnAdmit excludes.
createJoinMsgOthers(cnick, nks, t) ==
    Msg(<<>>, <<>>, NoClient, t,
        createSpecialMsg(cnick \o <<" has joined">>, "notif", t)
            \o createUserListMsg(SelectSeq(nks, LAMBDA n : n # cnick)))

\* createJoinMsg
createJoinMsg(cnick, nks, t) ==
    Msg(<<>>, <<>>, NoClient, t,
        createSpecialMsg(cnick \o <<" has joined">>, "notif", t)
            \o createUserListMsg(nks))

\* A createLeaveMsg without the list of users: with it the clients that
\* remain keep the leaver in their list, which LeaveMsgOnRemove excludes.
createLeaveMsgNoList(cnick, nks, t) ==
    Msg(<<>>, <<>>, NoClient, t,
        createSpecialMsg(cnick \o <<" has left">>, "notif", t))

\* createLeaveMsg
createLeaveMsg(cnick, nks, t) ==
    Msg(<<>>, <<>>, NoClient, t,
        createSpecialMsg(cnick \o <<" has left">>, "notif", t)
            \o createUserListMsg(nks))

NickCmd == <<"/", "n", "i", "c", "k", " ">>

\* The test of handleMsg that makes a text a /nick request.
IsNickRequest(text) == HasPrefix(text, NickCmd) /\ Len(text) > Len(NickCmd)

\* ---------------------------------------------------------------- getIPString

\* strings.Index: where sep first occurs in s, 0 when it does not.
Index(s, sep) ==
    LET at == {i \in 1..(Len(s) - Len(sep) + 1) : SubSeq(s, i, i + Len(sep) - 1) = sep}
    IN  IF at = {} THEN 0 ELSE CHOOSE i \in at : \A j \in at : i <= j

\* strings.Split for a sep that is not empty: the pieces of s between the
\* occurrences of sep; a string without sep, the empty string too, is the
\* one piece.
RECURSIVE Split(_, _)
Split(s, sep) ==
    IF Index(s, sep) = 0 THEN <<s>>
    ELSE <<SubSeq(s, 1, Index(s, sep) - 1)>>
             \o Split(SubSeq(s, Index(s, sep) + Len(sep), Len(s)), sep)

\* net.SplitHostPort on an address of the form host:port, an error on
\* one without port.
SplitHostPort(a) ==
    IF Len(a) = 3 /\ a[2] = ":" THEN [host |-> <<a[1]>>, err |-> FALSE]
    ELSE [host |-> <<>>, err |-> TRUE]

\* Addresses for which IP.IsLoopback and IP.IsPrivate hold.
LoopbackIPs == {<<"127.0.0.1">>}
PrivateIPs == {<<"10.0.0.1">>}

\* getIPString on a request r, r.xff being r.Header.Get("X-Forwarded-For"),
\* the empty string when the request has no such header, and r.remote being
\* r.RemoteAddr.
getIPString(r) ==
    LET forwardedIPs == Split(r.xff, <<",", " ">>)
    IN  IF Len(forwardedIPs) > 0
        THEN forwardedIPs[Len(forwardedIPs)]
        ELSE LET hp == SplitHostPort(r.remote)
             IN  IF hp.err THEN r.remote
                 ELSE IF hp.host \in PrivateIPs \/ hp.host \in LoopbackIPs
                 THEN <<"lan">>
                 ELSE hp.host

\* Values of the X-Forwarded-For header: none, one address, chains, and a
\* chain written without the space.
XffValues ==
    { <<>>,
      <<"ip1">>,
      <<"ip2", ",", " ", "ip1">>,
      <<"ip1", ",", " ", "ip2">>,
      <<"ip2", ",", "ip1">> }

\* Values of RemoteAddr: loopback, private and public peers, and an address
\* without port.
RemoteValues ==
    { <<"127.0.0.1", ":", "80">>,
      <<"10.0.0.1", ":", "80">>,
      <<"8.8.8.8", ":", "80">>,
      <<"8.8.8.8">> }

Requests == [xff : XffValues, remote : RemoteValues]

\* The request of a connection that a reverse proxy forwards for ip1.
ProxiedRequest == [xff |-> <<"ip1">>, remote |-> <<"10.0.0.1", ":", "80">>]


\* ---------------------------------------------------------------------- state

VARIABLES
    rooms,          \* chatServer.rooms: IP -> chatRoom instance, 0 when absent
    roomsMu,        \* chatServer.roomsMu: its holder, or "free"
    created,        \* number of chatRoom instances newChatRoom has made
    incoming,       \* chatRoom.incoming, per instance
    members,        \* chatRoom.clients, per instance
    clientsMu,      \* chatRoom.clientsMu: its holder, or "free"
    whenLastMsg,    \* chatRoom.whenLastMsg, 0 is the zero time
    tokens,         \* chatRoom.limiter: tokens in the bucket
    rpc,            \* where the goroutine of chatRoom.start is
    cur,            \* start's m, and the authorMsg and chatMsg of handleMsg
    nick,           \* client.nick
    unsynced,       \* values of client.nick overwritten by handleMsg that the
                    \* connection's goroutine may still read (no happens-before)
    outgoing,       \* client.outgoing
    closeSlowCalls, \* goroutines started with go c.closeSlow(), per client
    pc,             \* where the goroutine of chatServer.connect is
    req,            \* connectHandler's r: the X-Forwarded-For header and RemoteAddr
    ipOf,           \* connect's ip
    roomOf,         \* the room of the cs.addClient or cs.removeClient call,
                    \* and connect's room as cs.addClient returned it
    pending,        \* the msg a blocked send on incoming is sending
    sends,          \* texts the connections have read so far
    enq,            \* history: sends completed on incoming, per instance
    deq,            \* history: receives completed on incoming, per instance
    sent,           \* history: id of the last msg whose rendering start's
                    \* loop put on the client's outgoing
    admin           \* where adminDataHandler is, and the data it has buffered

vars == <<rooms, roomsMu, created, incoming, members, clientsMu, whenLastMsg,
          tokens, rpc, cur, nick, unsynced, outgoing, closeSlowCalls, pc,
          req, ipOf, roomOf, pending, sends, enq, deq, sent, admin>>

Free == "free"
NoRoom == 0

NoResult == [authorMsg |-> <<>>, chatMsg |-> <<>>]

\* start's m, authorMsg and chatMsg outside an iteration of its loop.
NoCur == [m |-> NoMsg, res |-> NoResult]

\* time.Now(): the clock advances with every text that arrives.
now == sends + 1

\* adminDataHandler, lines 42-44: the response to a request that does not
\* come from the admin page, 403 without data.
Forbidden == [status |-> 403, rooms |-> 0, list |-> {}]

\* adminDataHandler handles no request.
AdminIdle == [at |-> "idle", out |-> Forbidden]

Init ==
    /\ rooms = [i \in Keys |-> NoRoom]
    /\ roomsMu = Free
    /\ created = 0
    /\ incoming = [r \in RoomIds |-> <<>>]
    /\ members = [r \in RoomIds |-> {}]
    /\ clientsMu = [r \in RoomIds |-> Free]
    /\ whenLastMsg = [r \in RoomIds |-> 0]
    /\ tokens = [r \in RoomIds |-> limiterBurst]
    /\ rpc = [r \in RoomIds |-> "none"]
    /\ cur = [r \in RoomIds |-> NoCur]
    /\ nick = [c \in Clients |-> <<>>]
    /\ unsynced = [c \in Clients |-> <<>>]
    /\ outgoing = [c \in Clients |-> <<>>]
    /\ closeSlowCalls = [c \in Clients |-> 0]
    /\ pc = [c \in Clients |-> "addClient"]
    /\ ipOf = [c \in Clients |-> CHOOSE i \in IPs : TRUE]
    /\ roomOf = [c \in Clients |-> NoRoom]
    /\ pending = [c \in Clients |-> NoMsg]
    /\ sends = 0
    /\ enq = [r \in RoomIds |-> 0]
    /\ deq = [r \in RoomIds |-> 0]
    /\ sent = [c \in Clients |-> 0]
    /\ req = [c \in Clients |-> ProxiedRequest]
    /\ admin = AdminIdle

\* ------------------------------------------------------------ chatRoom helpers

\* A nickInUse that finds no nickname in use: with it a /nick request for a
\* member's nickname is accepted, which RejectedNickIsPrivate excludes.
nickInUseNever(nk, S, n) == FALSE

\* chatRoom.nickInUse, on the nicknames nk and the clients S of the room.
nickInUse(nk, S, n) == \E c \in S : nk[c] = n

\* A getNewNick that takes the number of clients for the suffix, not the
\* first number that is free: with it a client gets a nickname that is
\* taken, or a higher one than it should, which NewNickIsFirstFree excludes.
getNewNickFromCount(nk, S, ogNick, i) == ogNick \o Itoa(Cardinality(S) + 1)

RECURSIVE getNewNickFrom(_, _, _, _)
\* The loop of chatRoom.getNewNick.
getNewNickFrom(nk, S, ogNick, i) ==
    LET n == ogNick \o Itoa(i)
    IN  IF nickInUse(nk, S, n) THEN getNewNickFrom(nk, S, ogNick, i + 1) ELSE n

\* A getNewNick that hands out genNick's nickname without looking at the
\* room: with it two clients of a room get the same one, which NickUnique
\* excludes.
getNewNickAsGenerated(nk, S, ogNick) == ogNick

\* chatRoom.getNewNick, ogNick being what genNick returned.
getNewNick(nk, S, ogNick) ==
    IF nickInUse(nk, S, ogNick) THEN getNewNickFrom(nk, S, ogNick, 2) ELSE ogNick

\* A nicks that returns the nicknames in the reverse of the sorted order:
\* with it the list a rename sends is not sorted, which RenameBroadcast
\* excludes.
nicksReversed(nk, S) ==
    [i \in 1..Cardinality(S) |-> SortStrings(nk, S)[Cardinality(S) + 1 - i]]

\* chatRoom.nicks
nicks(nk, S) == SortStrings(nk, S)

\* chatRoom.numClients
numClients(r) == Cardinality(members[r])

\* A send on chatRoom.incoming can complete.  Of the sends that wait for
\* space, any may take it: the order in which the runtime serves them is not
\* kept.
IncomingHasSpace(r) == Len(incoming[r]) < serverMsgBuffer

\* The send on chatRoom.incoming: the msg goes to the back of the channel.
SendIncoming(q, m) == Append(q, m)

\* A receive that takes the msg at the back of the channel: with it msgs are
\* handled out of the order of the sends, which FifoOrder excludes.
ReceiveIncomingLast(q) == q[Len(q)]

\* case m := <-cr.incoming: the msg at the front of the channel.
ReceiveIncoming(q) == Head(q)

\* What is left on the channel after the receive.
AfterReceive(q) == Tail(q)

\* The msg as it is sent on incoming: id is its place in the order of sends.
Stamp(m, r) == [m EXCEPT !.id = enq[r] + 1]

\* A send on client.outgoing can complete.
OutgoingHasSpace(q) == Len(q) < clientMsgBuffer

\* client.sendText, the channel: s is queued when there is space.
sendTextQueue(q, s) == IF OutgoingHasSpace(q) THEN Append(q, s) ELSE q

\* client.sendText, the default case: the closeSlow goroutines it starts.
sendTextOverflow(q) == IF OutgoingHasSpace(q) THEN 0 ELSE 1

\* A text on client.outgoing that nothing will receive: connect has left its
\* loop, so only the number of texts on the channel still matters (to
\* sendText).
Unread == <<[tag |-> "unread"]>>

\* connect has its loop ahead or is in it: what is on c.outgoing will be
\* received.
Receiving(c) == pc[c] \in {"join", "roomname", "loop", "write", "submit"}

\* c.outgoing after c.sendText(s).
sendText(c, s) == sendTextQueue(outgoing[c], IF Receiving(c) THEN s ELSE Unread)

\* ------------------------------------------------------------------ handleMsg

\* chatRoom.handleMsg on msg m, for the nicknames nk and the clients S of the
\* room, t being time.Now():
\*   authorMsg, chatMsg  the two strings it returns,
\*   nick                the nicknames when it returns,
\*   notice              what it hands to m.author.sendText (empty: nothing),
\*   last                whether it assigns m.when to whenLastMsg.
handleMsg(nk, S, m, t) ==
    LET none == [authorMsg |-> <<>>, chatMsg |-> <<>>, nick |-> nk,
                 notice |-> <<>>, last |-> FALSE]
    IN  IF m.raw # <<>>
        THEN [none EXCEPT !.authorMsg = m.raw, !.chatMsg = m.raw]
        ELSE IF IsNickRequest(m.text)
        THEN LET newNick == sanitizeNick(SubSeq(m.text, Len(NickCmd) + 1, Len(m.text)))
             IN  IF newNick = <<>>
                 THEN [none EXCEPT !.notice =
                         createSpecialMsg(<<"Nickname cannot be empty">>, "error", t)]
                 ELSE IF nickInUse(nk, S, newNick)
                 THEN [none EXCEPT !.notice =
                         createSpecialMsg(<<"That nickname is already in use">>, "error", t)]
                 ELSE LET oldNick == nk[m.author]
                          nk2 == [nk EXCEPT ![m.author] = newNick]
                          s == createSpecialMsg(
                                   oldNick \o <<" is now known as ">> \o newNick,
                                   "notif", t)
                               \o createUserListMsg(nicks(nk2, S))
                      IN  [none EXCEPT !.authorMsg = s, !.chatMsg = s, !.nick = nk2]
        ELSE LET r == createChatMsg(m)
             IN  [none EXCEPT !.authorMsg = r[1], !.chatMsg = r[2], !.last = TRUE]

\* --------------------------------------------------- chatRoom.start (pipeline)

\* start, lines 92-96: handleMsg on m under clientsMu, which is free, and
\* the test of chatMsg.  m and the two strings are dead once the iteration
\* ends.
HandleStep(r, m) ==
    LET h == handleMsg(nick, members[r], m, now)
    IN  /\ nick' = h.nick
        /\ unsynced' = [c \in DOMAIN unsynced |->
                          IF h.nick[c] # nick[c] /\ Receiving(c)
                          THEN Append(unsynced[c], nick[c]) ELSE unsynced[c]]
        /\ whenLastMsg' = [whenLastMsg EXCEPT ![r] = IF h.last THEN m.when ELSE @]
        /\ outgoing' = [c \in DOMAIN outgoing |->
                          IF h.notice # <<>> /\ c = m.author
                          THEN sendText(c, h.notice) ELSE outgoing[c]]
        /\ closeSlowCalls' = [c \in DOMAIN closeSlowCalls |->
                          IF h.notice # <<>> /\ c = m.author
                          THEN closeSlowCalls[c] + sendTextOverflow(outgoing[c])
                          ELSE closeSlowCalls[c]]
        /\ cur' = [cur EXCEPT ![r] =
                          IF h.chatMsg = <<>> THEN NoCur
                          ELSE [m |-> m, res |-> [authorMsg |-> h.authorMsg,
                                                  chatMsg |-> h.chatMsg]]]
        /\ rpc' = [rpc EXCEPT ![r] = IF h.chatMsg = <<>> THEN "select" ELSE "bcast"]

\* A limiter.Wait that takes nothing from the bucket: with it start handles
\* msgs as fast as they come, which TokenPerMsg excludes.
WaitNoToken(t) == t

\* limiter.Wait, line 90, when it returns: one token leaves the bucket of
\* t tokens.
Wait(t) == t - 1

\* start, line 89: the select receives the msg at the front of incoming;
\* start is then at limiter.Wait, line 90.
Receive(r) ==
    /\ rpc[r] = "select"
    /\ incoming[r] # <<>>
    /\ cur' = [cur EXCEPT ![r] = [m |-> ReceiveIncoming(incoming[r]), res |-> NoResult]]
    /\ incoming' = [incoming EXCEPT ![r] = AfterReceive(@)]
    /\ deq' = [deq EXCEPT ![r] = @ + 1]
    /\ rpc' = [rpc EXCEPT ![r] = "wait"]
    /\ UNCHANGED <<rooms, roomsMu, created, members, clientsMu, whenLastMsg, tokens,
                   nick, unsynced, outgoing, closeSlowCalls, pc, ipOf, roomOf,
                   pending, sends, enq, sent, req, admin>>

\* start, line 90: limiter.Wait returns when the bucket has a token for it;
\* start is then at the Lock of handleMsg.
WaitDone(r) ==
    /\ rpc[r] = "wait"
    /\ tokens[r] > 0
    /\ tokens' = [tokens EXCEPT ![r] = Wait(@)]
    /\ rpc' = [rpc EXCEPT ![r] = "handle"]
    /\ UNCHANGED <<rooms, roomsMu, created, incoming, members, clientsMu, whenLastMsg,
                   cur, nick, unsynced, outgoing, closeSlowCalls, pc, ipOf, roomOf,
                   pending, sends, enq, deq, sent, req, admin>>

\* newChatRoom, line 78: rate.Every(100ms) has passed and the bucket of the
\* limiter of r, which holds at most limiterBurst tokens, gains one.
Refill(r) ==
    /\ rpc[r] \notin {"none", "stopped"}
    /\ tokens[r] < limiterBurst
    /\ tokens' = [tokens EXCEPT ![r] = @ + 1]
    /\ UNCHANGED <<rooms, roomsMu, created, incoming, members, clientsMu, whenLastMsg,
                   rpc, cur, nick, unsynced, outgoing, closeSlowCalls, pc, ipOf,
                   roomOf, pending, sends, enq, deq, sent, req, admin>>

\* start, lines 92-96: handleMsg, which locks clientsMu, and the test of
\* chatMsg.
HandleMsg(r) ==
    /\ rpc[r] = "handle"
    /\ clientsMu[r] = Free
    /\ HandleStep(r, cur[r].m)
    /\ UNCHANGED <<rooms, roomsMu, created, incoming, members, clientsMu, tokens, pc,
                   ipOf, roomOf, pending, sends, enq, deq, sent, req, admin>>

\* A loop that hands every client the text of the others: with it the author
\* gets no text of its own and no input reset, which AuthorGetsInputReset
\* excludes.
BroadcastTextSame(r, c) == cur[r].res.chatMsg

\* What start's loop hands to c.sendText.
BroadcastText(r, c) ==
    IF cur[r].m.author = c
    THEN cur[r].res.authorMsg \o clearInputFieldMsg
    ELSE cur[r].res.chatMsg

\* A loop that gives up when a client's channel is full: with it the clients
\* with space miss the text, which BroadcastIsolated excludes.
BroadcastTargetsStall(r) ==
    IF \E c \in members[r] : ~OutgoingHasSpace(outgoing[c]) THEN {} ELSE members[r]

\* The clients start's loop ranges over.
BroadcastTargets(r) == members[r]

\* start, lines 97-106: the loop over cr.clients under clientsMu.
Broadcast(r) ==
    /\ rpc[r] = "bcast"
    /\ clientsMu[r] = Free
    /\ outgoing' = [c \in DOMAIN outgoing |->
                      IF c \in BroadcastTargets(r)
                      THEN sendText(c, BroadcastText(r, c))
                      ELSE outgoing[c]]
    /\ closeSlowCalls' = [c \in DOMAIN closeSlowCalls |->
                      IF c \in BroadcastTargets(r)
                      THEN closeSlowCalls[c] + sendTextOverflow(outgoing[c])
                      ELSE closeSlowCalls[c]]
    /\ sent' = [c \in DOMAIN sent |->
                      IF c \in BroadcastTargets(r) /\ outgoing'[c] # outgoing[c]
                      THEN cur[r].m.id ELSE sent[c]]
    /\ rpc' = [rpc EXCEPT ![r] = "select"]
    /\ cur' = [cur EXCEPT ![r] = NoCur]
    /\ UNCHANGED <<rooms, roomsMu, created, incoming, members, clientsMu, whenLastMsg,
                   tokens, nick, unsynced, pc, ipOf, roomOf, pending, sends, enq, deq,
                   req, admin>>


\* ------------------------------------------- chatServer.connect (connection)

\* A cs.addClient that makes a room for every client: with it the clients of
\* one ip are spread over several rooms, which OneRoomPerKey excludes.
RoomForAlwaysNew(ip) == created + 1

\* An addClient that, finding no room for the key, takes the last room made
\* when there is one: with it a room that lost all its clients gets clients
\* again, which DrainedRoomNeverReused excludes.
RoomForDrained(ip) ==
    IF rooms[ip] = NoRoom THEN (IF created > 0 THEN created ELSE 1) ELSE rooms[ip]

\* The room cs.addClient finds or creates for ip: a new instance is the next
\* one newChatRoom makes.
RoomFor(ip) == IF rooms[ip] = NoRoom THEN created + 1 ELSE rooms[ip]

\* connect, lines 331-337, for a websocket connectHandler accepted with ip
\* what getIPString derived; cs.addClient, lines 255-266, and cr.addClient:
\* both locks are taken, the room is found or created and started, the
\* client gets its nickname and enters cr.clients, the join msg is built
\* and sent.  If incoming is full the call stays at the send of line 120,
\* holding both locks.
AddClient(c, ip) ==
    /\ pc[c] = "addClient"
    /\ \A i \in 1..Len(ClientOrder) :
         ClientOrder[i] = c => \A j \in 1..(i - 1) : pc[ClientOrder[j]] # "addClient"
    /\ roomsMu = Free
    /\ ipOf' = [ipOf EXCEPT ![c] = ip]
    /\ LET r == RoomFor(ip)
           isNew == r # rooms[ip]
       IN  /\ clientsMu[r] = Free
           /\ \E ogNick \in GenNicks :
                LET nk == [nick EXCEPT ![c] = getNewNick(nick, members[r], ogNick)]
                    S == members[r] \cup {c}
                    m == createJoinMsg(nk[c], nicks(nk, S), now)
                IN  /\ nick' = nk
                    /\ members' = [members EXCEPT ![r] = S]
                    /\ IF IncomingHasSpace(r)
                       THEN /\ incoming' = [incoming EXCEPT ![r] =
                                              SendIncoming(@, Stamp(m, r))]
                            /\ enq' = [enq EXCEPT ![r] = @ + 1]
                            /\ pc' = [pc EXCEPT ![c] = "roomname"]
                            /\ UNCHANGED <<pending, clientsMu>>
                       ELSE /\ pending' = [pending EXCEPT ![c] = m]
                            /\ clientsMu' = [clientsMu EXCEPT ![r] = c]
                            /\ pc' = [pc EXCEPT ![c] = "join"]
                            /\ UNCHANGED <<incoming, enq>>
           /\ rooms' = [rooms EXCEPT ![ip] = r]
           /\ created' = IF isNew THEN created + 1 ELSE created
           /\ rpc' = IF isNew THEN [rpc EXCEPT ![r] = "select"] ELSE rpc
           /\ roomOf' = [roomOf EXCEPT ![c] = r]
    /\ roomsMu' = c
    /\ UNCHANGED <<whenLastMsg, tokens, cur, unsynced, outgoing, closeSlowCalls,
                   sends, deq, sent, req, admin>>

\* cr.addClient, line 120, and its deferred Unlock: the blocked send of the
\* join msg completes.
JoinSend(c) ==
    /\ pc[c] = "join"
    /\ LET r == roomOf[c]
       IN  /\ IncomingHasSpace(r)
           /\ incoming' = [incoming EXCEPT ![r] = SendIncoming(@, Stamp(pending[c], r))]
           /\ enq' = [enq EXCEPT ![r] = @ + 1]
           /\ clientsMu' = [clientsMu EXCEPT ![r] = Free]
    /\ pending' = [pending EXCEPT ![c] = NoMsg]
    /\ pc' = [pc EXCEPT ![c] = "roomname"]
    /\ UNCHANGED <<rooms, roomsMu, created, members, whenLastMsg, tokens, rpc, cur,
                   nick, unsynced, outgoing, closeSlowCalls, ipOf, roomOf, sends, deq, sent,
                   req, admin>>

\* The room name cs.addClient sends, line 269.
RoomNameMsg(ip) == <<[tag |-> "h2", ip |-> ip]>>

\* The send of line 269 can complete: a plain channel send waits for space.
RoomNameCanSend(q) == OutgoingHasSpace(q)

\* cs.addClient, lines 269-271: the room name is sent on c.outgoing, roomsMu
\* is unlocked and connect enters its loop.
RoomNameSend(c) ==
    /\ pc[c] = "roomname"
    /\ RoomNameCanSend(outgoing[c])
    /\ outgoing' = [outgoing EXCEPT ![c] = Append(@, RoomNameMsg(ipOf[c]))]
    /\ roomsMu' = Free
    /\ pc' = [pc EXCEPT ![c] = "loop"]
    /\ UNCHANGED <<rooms, created, incoming, members, clientsMu, whenLastMsg, tokens,
                   rpc, cur, nick, unsynced, closeSlowCalls, ipOf, roomOf, pending,
                   sends, enq, deq, sent, req, admin>>

\* The rendering of a rename as its author receives it: the notice, the user
\* list and the input field.
IsOwnRename(html) ==
    /\ Len(html) = 3
    /\ html[1].tag = "special"
    /\ html[3].tag = "input"

\* cl.outgoing, cl.nick's unordered values and the history of the client
\* once connect has left its loop with q on cl.outgoing.
LeaveLoop(c, q) ==
    /\ outgoing' = [outgoing EXCEPT ![c] = [i \in 1..Len(q) |-> Unread]]
    /\ unsynced' = [unsynced EXCEPT ![c] = <<>>]
    /\ sent' = [sent EXCEPT ![c] = 0]

\* A cs.removeClient that leaves the empty room in cs.rooms: with it the
\* registry keeps a room without clients, which RegistryIffMembers excludes.
AfterRoomRemoveKeepsRoom(c, r, mem) ==
    /\ rooms' = rooms
    /\ roomsMu' = Free
    /\ pc' = [pc EXCEPT ![c] = "done"]

\* cs.removeClient after room.removeClient returned, lines 288-291, up to
\* the send on quit: room.numClients() is taken under clientsMu, and an
\* empty room leaves cs.rooms.
AfterRoomRemove(c, r, mem) ==
    IF Cardinality(mem[r]) = 0
    THEN /\ rooms' = [rooms EXCEPT ![ipOf[c]] = NoRoom]
         /\ roomsMu' = c
         /\ pc' = [pc EXCEPT ![c] = "quit"]
    ELSE /\ rooms' = rooms
         /\ roomsMu' = Free
         /\ pc' = [pc EXCEPT ![c] = "done"]

\* A removeClient that takes a missing room for an empty one and goes on to
\* the send on quit: with it the call does not return, which
\* RemoveMissingIsNoOp excludes.
RemoveMissingSignals(c) ==
    /\ pc' = [pc EXCEPT ![c] = "quit"]
    /\ roomsMu' = c
    /\ UNCHANGED <<rooms, members, clientsMu, pending, roomOf, incoming, enq>>

\* cs.removeClient, lines 282-287, with roomsMu free: there is no room for
\* the key, the call logs that and returns.
RemoveMissing(c) ==
    /\ pc' = [pc EXCEPT ![c] = "done"]
    /\ UNCHANGED <<rooms, roomsMu, members, clientsMu, pending, roomOf,
                   incoming, enq>>

\* cs.removeClient, lines 277-287, and cr.removeClient, with roomsMu free: a
\* missing room ends the call; otherwise room.removeClient locks clientsMu,
\* the client leaves cr.clients and, when clients remain, the leave msg is
\* built and sent, and clientsMu is unlocked: the call is then before
\* room.numClients(), line 288, holding roomsMu.  If incoming is full the
\* call stays at the send of line 132, holding both locks.
RemoveStep(c) ==
    LET r == rooms[ipOf[c]]
    IN  IF r = NoRoom
        THEN RemoveMissing(c)
        ELSE /\ clientsMu[r] = Free
             /\ roomOf' = [roomOf EXCEPT ![c] = r]
             /\ members' = [members EXCEPT ![r] = @ \ {c}]
             /\ roomsMu' = c
             /\ rooms' = rooms
             /\ IF members'[r] = {}
                THEN /\ pc' = [pc EXCEPT ![c] = "numClients"]
                     /\ UNCHANGED <<pending, clientsMu, incoming, enq>>
                ELSE LET m == createLeaveMsg(nick[c], nicks(nick, members'[r]), now)
                     IN  IF IncomingHasSpace(r)
                         THEN /\ incoming' = [incoming EXCEPT ![r] =
                                                SendIncoming(@, Stamp(m, r))]
                              /\ enq' = [enq EXCEPT ![r] = @ + 1]
                              /\ pc' = [pc EXCEPT ![c] = "numClients"]
                              /\ UNCHANGED <<pending, clientsMu>>
                         ELSE /\ pending' = [pending EXCEPT ![c] = m]
                              /\ clientsMu' = [clientsMu EXCEPT ![r] = c]
                              /\ pc' = [pc EXCEPT ![c] = "leave"]
                              /\ UNCHANGED <<incoming, enq>>

\* connect returns with q on cl.outgoing and its deferred cs.removeClient
\* runs, line 338; if roomsMu is held the call stays at its Lock.
Return(c, q) ==
    /\ LeaveLoop(c, q)
    /\ IF roomsMu = Free
       THEN RemoveStep(c)
       ELSE /\ pc' = [pc EXCEPT ![c] = "removeClient"]
            /\ UNCHANGED <<rooms, roomsMu, members, clientsMu, pending, roomOf,
                           incoming, enq>>

\* connect, line 360: the select receives the text at the front of
\* cl.outgoing; connect is then in writeTimeout, line 362.  Receiving the
\* rendering of its own rename orders that write of cl.nick before the
\* goroutine's reads.
ReceiveOutgoing(c) ==
    /\ pc[c] = "loop"
    /\ outgoing[c] # <<>>
    /\ outgoing' = [outgoing EXCEPT ![c] = Tail(@)]
    /\ unsynced' = [unsynced EXCEPT ![c] =
            IF IsOwnRename(Head(outgoing[c])) /\ @ # <<>> THEN Tail(@) ELSE @]
    /\ pc' = [pc EXCEPT ![c] = "write"]
    /\ UNCHANGED <<rooms, roomsMu, created, incoming, members, clientsMu, whenLastMsg,
                   tokens, rpc, cur, nick, closeSlowCalls, ipOf, roomOf, pending,
                   sends, enq, deq, sent, req, admin>>

\* connect, lines 361-365: writeTimeout returns, after at most five seconds;
\* the text was written and connect is back at its select, or the write
\* failed and connect returns with what is left on cl.outgoing.
WriteOut(c) ==
    /\ pc[c] = "write"
    /\ \E err \in BOOLEAN :
         IF err
         THEN Return(c, outgoing[c])
         ELSE /\ pc' = [pc EXCEPT ![c] = "loop"]
              /\ UNCHANGED <<outgoing, unsynced, sent, rooms, roomsMu, members,
                             clientsMu, pending, roomOf, incoming, enq>>
    /\ UNCHANGED <<created, whenLastMsg, tokens, rpc, cur, nick, closeSlowCalls,
                   ipOf, sends, deq, req, admin>>

RECURSIVE StringBytes(_)
\* The bytes of the string s, each as the token it belongs to and the
\* number of bytes of that token that follow it.
StringBytes(s) ==
    IF s = <<>> THEN <<>>
    ELSE [i \in 1..Len(EncodeRune(Head(s))) |->
             <<Head(s), Len(EncodeRune(Head(s))) - i>>]
         \o StringBytes(Tail(s))

RECURSIVE TornString(_, _, _)
\* The string of the n bytes from byte i of b, the bytes of a value, on:
\* a character whose bytes are all among them is itself, a byte of a
\* character cut by the end is an invalid byte, and so is, in the model, a
\* byte behind the value ("\\xFF" stands for whatever the heap holds
\* there).
TornString(b, i, n) ==
    IF n = 0 THEN <<>>
    ELSE IF i > Len(b) \/ b[i][2] >= n
    THEN <<"\\xFF">> \o TornString(b, i + 1, n - 1)
    ELSE IF b[i][2] = 0
    THEN <<b[i][1]>> \o TornString(b, i + 1, n - 1)
    ELSE TornString(b, i + 1, n - 1)

\* The values the read of cl.nick at line 369 may return: handleMsg writes
\* cl.nick in the room's goroutine, and nothing orders that write before
\* the read (a data race).  A string is a pointer and a length in bytes,
\* and the read may take the two from different writes: it returns a whole
\* value, the start of a value cut at the length of a shorter one, or a
\* value followed by the bytes the heap holds behind it, up to the length
\* of a longer one.
NickViews(c) ==
    LET whole == {nick[c]} \cup {unsynced[c][i] : i \in 1..Len(unsynced[c])}
    IN  {TornString(StringBytes(p), 1, Len(StringBytes(l))) : p \in whole, l \in whole}

\* The msg connect builds at lines 368-373 for text, nk being what the read
\* of cl.nick returned.
UserMsg(c, nk, text) == Msg(nk, text, c, now, <<>>)

\* connect, lines 366-373: a text the reader goroutine put on readCh is
\* received, the msg is built and sent on room.incoming.  If incoming is
\* full connect stays at the send.
ReadText(c, text) ==
    /\ pc[c] = "loop"
    /\ sends < MaxSends
    /\ sends' = sends + 1
    /\ \E nk \in NickViews(c) :
         LET m == UserMsg(c, nk, text)
             r == roomOf[c]
         IN  IF IncomingHasSpace(r)
             THEN /\ incoming' = [incoming EXCEPT ![r] = SendIncoming(@, Stamp(m, r))]
                  /\ enq' = [enq EXCEPT ![r] = @ + 1]
                  /\ UNCHANGED <<pending, pc>>
             ELSE /\ pending' = [pending EXCEPT ![c] = m]
                  /\ pc' = [pc EXCEPT ![c] = "submit"]
                  /\ UNCHANGED <<incoming, enq>>
    /\ UNCHANGED <<rooms, roomsMu, created, members, clientsMu, whenLastMsg, tokens,
                   rpc, cur, nick, unsynced, outgoing, closeSlowCalls, ipOf, roomOf, deq, sent,
                   req, admin>>

\* connect, line 368: the blocked send on room.incoming completes.
Submit(c) ==
    /\ pc[c] = "submit"
    /\ LET r == roomOf[c]
       IN  /\ IncomingHasSpace(r)
           /\ incoming' = [incoming EXCEPT ![r] = SendIncoming(@, Stamp(pending[c], r))]
           /\ enq' = [enq EXCEPT ![r] = @ + 1]
    /\ pending' = [pending EXCEPT ![c] = NoMsg]
    /\ pc' = [pc EXCEPT ![c] = "loop"]
    /\ UNCHANGED <<rooms, roomsMu, created, members, clientsMu, whenLastMsg, tokens,
                   rpc, cur, nick, unsynced, outgoing, closeSlowCalls, ipOf, roomOf,
                   sends, deq, sent, req, admin>>

\* connect, lines 374-375: the context is cancelled (the websocket was
\* closed by the peer, by closeSlow or after a read error) and connect
\* returns.
Disconnect(c) ==
    /\ pc[c] = "loop"
    /\ Return(c, outgoing[c])
    /\ UNCHANGED <<created, whenLastMsg, tokens, rpc, cur, nick, closeSlowCalls,
                   ipOf, sends, deq, req, admin>>

\* cs.removeClient, line 277: the call that waited for roomsMu locks it.
RemoveClient(c) ==
    /\ pc[c] = "removeClient"
    /\ roomsMu = Free
    /\ RemoveStep(c)
    /\ UNCHANGED <<created, whenLastMsg, tokens, rpc, cur, nick, unsynced, outgoing,
                   closeSlowCalls, ipOf, sends, deq, sent, req, admin>>

\* cr.removeClient, line 132, and its deferred Unlock: the blocked send of
\* the leave msg completes and room.removeClient returns; the call is then
\* before room.numClients(), line 288.
LeaveSend(c) ==
    /\ pc[c] = "leave"
    /\ LET r == roomOf[c]
       IN  /\ IncomingHasSpace(r)
           /\ incoming' = [incoming EXCEPT ![r] = SendIncoming(@, Stamp(pending[c], r))]
           /\ enq' = [enq EXCEPT ![r] = @ + 1]
           /\ clientsMu' = [clientsMu EXCEPT ![r] = Free]
    /\ pending' = [pending EXCEPT ![c] = NoMsg]
    /\ pc' = [pc EXCEPT ![c] = "numClients"]
    /\ UNCHANGED <<rooms, roomsMu, created, members, whenLastMsg, tokens, rpc, cur,
                   nick, unsynced, outgoing, closeSlowCalls, ipOf, roomOf, sends, deq,
                   sent, req, admin>>

\* cs.removeClient, lines 288-291 up to the send on quit: room.numClients()
\* locks clientsMu, which must be free, counts cr.clients and unlocks; an
\* empty room is deleted from cs.rooms and the call goes on to the send on
\* quit, otherwise roomsMu is unlocked and the call returns.
NumClients(c) ==
    /\ pc[c] = "numClients"
    /\ clientsMu[roomOf[c]] = Free
    /\ AfterRoomRemove(c, roomOf[c], members)
    /\ UNCHANGED <<created, incoming, members, clientsMu, whenLastMsg, tokens, rpc,
                   cur, nick, unsynced, outgoing, closeSlowCalls, ipOf, roomOf,
                   pending, sends, enq, deq, sent, req, admin>>

\* A start without the case of quit in its select: with it the goroutine of
\* a room never returns and the send of removeClient never completes, which
\* QuitStopsRoom excludes.
QuitReadyNever(r) == FALSE

\* start, lines 86-88: the goroutine of r is at its select, where it
\* receives from quit.
QuitReady(r) == rpc[r] = "select"

\* cs.removeClient, line 290, and start, lines 87-88: quit is unbuffered, so
\* the send completes when start's select receives it; start returns.
QuitSend(c) ==
    /\ pc[c] = "quit"
    /\ QuitReady(roomOf[c])
    /\ rpc' = [rpc EXCEPT ![roomOf[c]] = "stopped"]
    /\ roomsMu' = Free
    /\ pc' = [pc EXCEPT ![c] = "done"]
    /\ UNCHANGED <<rooms, created, incoming, members, clientsMu, whenLastMsg, tokens,
                   cur, nick, unsynced, outgoing, closeSlowCalls, ipOf, roomOf,
                   pending, sends, enq, deq, sent, req, admin>>

\* ------------------------------------------------------------ adminDataHandler

\* The -key flag of main, which is not empty; it has a character that
\* url.QueryEscape changes.
adminKey == <<"s", " ", "k">>

\* url.QueryEscape on one token: ASCII letters, digits and "-", "_", ".",
\* "~" stay, a space is "+", and every byte of the UTF-8 encoding of another
\* character becomes "%" and two hexadecimal digits.
QueryEscapeChar(ch) ==
    LET cp  == TokenRank(ch)
        hex == <<"0", "1", "2", "3", "4", "5", "6", "7", "8", "9",
                 "A", "B", "C", "D", "E", "F">>
        utf8 == EncodeRune(ch)
        pct == [i \in 1..(3 * Len(utf8)) |->
                   CASE i % 3 = 1 -> "%"
                     [] i % 3 = 2 -> hex[(utf8[(i + 2) \div 3] \div 16) + 1]
                     [] OTHER     -> hex[(utf8[(i + 2) \div 3] % 16) + 1]]
    IN  IF ch = " " THEN <<"+">>
        ELSE IF \/ 97 <= cp /\ cp <= 122
                \/ 65 <= cp /\ cp <= 90
                \/ 48 <= cp /\ cp <= 57
                \/ ch \in {"-", "_", ".", "~"}
        THEN <<ch>>
        ELSE pct

RECURSIVE QueryEscape(_)
\* url.QueryEscape
QueryEscape(s) ==
    IF s = <<>> THEN <<>> ELSE QueryEscapeChar(Head(s)) \o QueryEscape(Tail(s))

\* strings.HasSuffix
HasSuffix(s, x) == Len(s) >= Len(x) /\ SubSeq(s, Len(s) - Len(x) + 1, Len(s)) = x

\* Values of the HX-Current-URL header of a request for the admin data: none,
\* the admin page without a key, with the key, with the key unescaped, with
\* another key.
AdminHeaders ==
    { <<>>,
      <<"/", "a">>,
      <<"/", "a", "?", "s", "+", "k">>,
      <<"/", "a", "?", "s", " ", "k">>,
      <<"/", "a", "?", "k">> }

\* adminDataHandler, line 41: "?"+url.QueryEscape(adminKey)
AdminQuery == <<"?">> \o QueryEscape(adminKey)

\* adminDataHandler, line 41: the request comes from the admin page.
FromAdminPage(hdr) == HasSuffix(hdr, AdminQuery)

\* A value of room.whenLastMsg that is no value handleMsg wrote: a read
\* that overlaps a write of the time.Time struct may be torn.
Torn == 0 - 1

\* Values the read of room.whenLastMsg at line 56 may return: handleMsg
\* writes the field under clientsMu and adminDataHandler reads it under
\* roomsMu only (a data race), so the read returns the value of the field,
\* one written before it, the one start is about to write, or a torn one.
LastMsgViews(r) ==
    (0..whenLastMsg[r])
        \cup (IF rpc[r] = "handle" /\ handleMsg(nick, members[r], cur[r].m, now).last
              THEN {cur[r].m.when} ELSE {})
        \cup {Torn}

\* humanize.RelTime(a, b, "ago", "from now") for the clock of the model,
\* whose ticks have no unit: the zero time is a long while ago, the present
\* is now, and otherwise the distance is given.
RelTime(a, b) ==
    IF a = Torn THEN [rel |-> "torn", n |-> 0]
    ELSE IF a = 0 THEN [rel |-> "a long while ago", n |-> 0]
    ELSE IF a = b THEN [rel |-> "now", n |-> 0]
    ELSE IF a < b THEN [rel |-> "ago", n |-> b - a]
    ELSE [rel |-> "from now", n |-> a - b]

\* What adminDataHandler answers to a request with header hdr, lines 41-58,
\* for cs.rooms rms and cr.clients mem, last[r] being what the read of
\* whenLastMsg of room r returned and t time.Now(): the number of keys of
\* cs.rooms and, per key, the ip, room.numClients() and the time since the
\* last message.  The range over the map has no order; the entries are a set.
adminDataHandler(hdr, rms, mem, last, t) ==
    IF ~FromAdminPage(hdr) THEN Forbidden
    ELSE LET keys == {i \in DOMAIN rms : rms[i] # NoRoom}
         IN  [status |-> 200,
              rooms |-> Cardinality(keys),
              list |-> {[ip |-> i, chatters |-> Cardinality(mem[rms[i]]),
                         last |-> RelTime(last[rms[i]], t)] : i \in keys}]

\* adminDataHandler, lines 41-45: a request that does not come from the
\* admin page is answered with 403; no lock is taken and nothing of the
\* server is read or written.
AdminForbidden ==
    /\ {hdr \in AdminHeaders : ~FromAdminPage(hdr)} # {}
    /\ UNCHANGED vars

\* adminDataHandler, lines 41-48: a request from the admin page locks
\* roomsMu, which must be free.  One request is handled at a time; another
\* would wait at the Lock.
AdminLock ==
    /\ admin.at = "idle"
    /\ \E hdr \in AdminHeaders : FromAdminPage(hdr)
    /\ roomsMu = Free
    /\ roomsMu' = "admin"
    /\ admin' = [at |-> "loop", out |-> Forbidden]
    /\ UNCHANGED <<rooms, created, incoming, members, clientsMu, whenLastMsg, tokens,
                   rpc, cur, nick, unsynced, outgoing, closeSlowCalls, pc, req, ipOf,
                   roomOf, pending, sends, enq, deq, sent>>

\* adminDataHandler, lines 51-58, holding roomsMu: the data is put in the
\* buffer; room.numClients() locks and unlocks clientsMu of every room of
\* cs.rooms, which must be free.
AdminData ==
    /\ admin.at = "loop"
    /\ \A i \in DOMAIN rooms : rooms[i] # NoRoom => clientsMu[rooms[i]] = Free
    /\ \E hdr \in AdminHeaders :
         /\ FromAdminPage(hdr)
         /\ \E last \in [RoomIds -> 0..now \cup {Torn}] :
              /\ \A r \in RoomIds : last[r] \in LastMsgViews(r)
              /\ \A r \in RoomIds :
                   (\A i \in DOMAIN rooms : rooms[i] # r) => last[r] = whenLastMsg[r]
              /\ admin' = [at |-> "flush",
                           out |-> adminDataHandler(hdr, rooms, members, last, now)]
    /\ UNCHANGED <<rooms, roomsMu, created, incoming, members, clientsMu, whenLastMsg,
                   tokens, rpc, cur, nick, unsynced, outgoing, closeSlowCalls, pc, req,
                   ipOf, roomOf, pending, sends, enq, deq, sent>>

\* adminDataHandler, line 59 and the deferred Unlock: Flush returns, when
\* the peer has read the data or the WriteTimeout of the server has passed,
\* and roomsMu is unlocked.
AdminFlush ==
    /\ admin.at = "flush"
    /\ roomsMu' = Free
    /\ admin' = AdminIdle
    /\ UNCHANGED <<rooms, created, incoming, members, clientsMu, whenLastMsg, tokens,
                   rpc, cur, nick, unsynced, outgoing, closeSlowCalls, pc, req, ipOf,
                   roomOf, pending, sends, enq, deq, sent>>

\* ---------------------------------------------------------------------- system

Next ==
    \/ \E c \in Clients, ip \in IPs : AddClient(c, ip)
    \/ \E c \in Clients : JoinSend(c)
    \/ \E c \in Clients : RoomNameSend(c)
    \/ \E c \in Clients : ReceiveOutgoing(c)
    \/ \E c \in Clients : WriteOut(c)
    \/ \E c \in Clients, text \in Texts : ReadText(c, text)
    \/ \E c \in Clients : Submit(c)
    \/ \E c \in Clients : Disconnect(c)
    \/ \E c \in Clients : RemoveClient(c)
    \/ \E c \in Clients : LeaveSend(c)
    \/ \E c \in Clients : NumClients(c)
    \/ \E c \in Clients : QuitSend(c)
    \/ \E r \in RoomIds : Receive(r)
    \/ \E r \in RoomIds : WaitDone(r)
    \/ \E r \in RoomIds : Refill(r)
    \/ \E r \in RoomIds : HandleMsg(r)
    \/ \E r \in RoomIds : Broadcast(r)
    \/ AdminForbidden
    \/ AdminLock
    \/ AdminData
    \/ AdminFlush

Spec == Init /\ [][Next]_vars

\* ------------------------------------------------- a room with its clients

\* Nicknames the clients of a room have: what getNewNick gives for genNick's
\* A, and B, set by a /nick request.
NickPool == {<<"A">>, <<"A", "2">>, <<"B">>}

\* Texts a websocket delivers, with the forms handleMsg and the renderers
\* tell apart: chat lines, lines that are blank, need escaping or are a
\* URL, and /nick requests with names that are free, taken, blank, padded,
\* escaped or composed by norm.NFC, and "/nick " with nothing behind it.
RoomTexts ==
    { <<"h", "i">>,
      <<" ">>,
      <<"<">>,
      <<"/", "n", "i", "c", "k", " ">>,
      <<"/", "n", "i", "c", "k", " ", " ">>,
      <<"/", "n", "i", "c", "k", " ", "B">>,
      <<"/", "n", "i", "c", "k", " ", "A", "2">>,
      <<"/", "n", "i", "c", "k", " ", " ", "B", " ">>,
      <<"/", "n", "i", "c", "k", " ", "<">>,
      <<"/", "n", "i", "c", "k", " ", "e", "\\u0301">>,
      <<"a", "b", ":", "/", "c", "d">> }

\* The server once every connection is in the loop of connect, in the one
\* room of the ip, with a nickname of its own, the join msgs handled and
\* their texts written to the websockets.
RoomInit ==
    /\ rooms = [i \in Keys |-> IF i \in IPs THEN 1 ELSE NoRoom]
    /\ roomsMu = Free
    /\ created = 1
    /\ incoming = [r \in RoomIds |-> <<>>]
    /\ members = [r \in RoomIds |-> IF r = 1 THEN Clients ELSE {}]
    /\ clientsMu = [r \in RoomIds |-> Free]
    /\ whenLastMsg = [r \in RoomIds |-> 0]
    /\ tokens = [r \in RoomIds |-> limiterBurst]
    /\ rpc = [r \in RoomIds |-> IF r = 1 THEN "select" ELSE "none"]
    /\ cur = [r \in RoomIds |-> NoCur]
    /\ nick \in {f \in [Clients -> NickPool] : \A c, d \in Clients : c # d => f[c] # f[d]}
    /\ unsynced = [c \in Clients |-> <<>>]
    /\ outgoing = [c \in Clients |-> <<>>]
    /\ closeSlowCalls = [c \in Clients |-> 0]
    /\ pc = [c \in Clients |-> "loop"]
    /\ ipOf = [c \in Clients |-> CHOOSE i \in IPs : TRUE]
    /\ roomOf = [c \in Clients |-> 1]
    /\ pending = [c \in Clients |-> NoMsg]
    /\ sends = 0
    /\ enq = [r \in RoomIds |-> 0]
    /\ deq = [r \in RoomIds |-> 0]
    /\ sent = [c \in Clients |-> 0]
    /\ req = [c \in Clients |-> ProxiedRequest]
    /\ admin = AdminIdle

\* The connections send texts and the room's goroutine handles them. incoming
\* holds every text the connections send (serverMsgBuffer is not below
\* MaxSends), so no send waits.
RoomNext ==
    \/ \E c \in Clients, text \in RoomTexts : ReadText(c, text)
    \/ \E r \in RoomIds : Receive(r)
    \/ \E r \in RoomIds : WaitDone(r)
    \/ \E r \in RoomIds : Refill(r)
    \/ \E r \in RoomIds : HandleMsg(r)
    \/ \E r \in RoomIds : Broadcast(r)

RoomSpec == RoomInit /\ [][RoomNext]_vars

\* ------------------------------------------------- calls of removeClient

\* The server with one room, under the key of IPs, whose clients are in the
\* loop of connect with nothing sent yet; a connection that is not in the
\* room is at a call of cs.removeClient with the key that has no room.
RemoveInit ==
    \E M \in SUBSET Clients :
        /\ M # {}
        /\ rooms = [i \in Keys |-> IF i \in IPs THEN 1 ELSE NoRoom]
        /\ roomsMu = Free
        /\ created = 1
        /\ incoming = [r \in RoomIds |-> <<>>]
        /\ members = [r \in RoomIds |-> IF r = 1 THEN M ELSE {}]
        /\ clientsMu = [r \in RoomIds |-> Free]
        /\ whenLastMsg = [r \in RoomIds |-> 0]
        /\ tokens = [r \in RoomIds |-> limiterBurst]
        /\ rpc = [r \in RoomIds |-> IF r = 1 THEN "select" ELSE "none"]
        /\ cur = [r \in RoomIds |-> NoCur]
        /\ nick \in {f \in [Clients -> NickPool] : \A c, d \in Clients : c # d => f[c] # f[d]}
        /\ unsynced = [c \in Clients |-> <<>>]
        /\ outgoing = [c \in Clients |-> <<>>]
        /\ closeSlowCalls = [c \in Clients |-> 0]
        /\ pc = [c \in Clients |-> IF c \in M THEN "loop" ELSE "removeClient"]
        /\ ipOf = [c \in Clients |-> IF c \in M THEN CHOOSE i \in IPs : TRUE ELSE <<"ip0">>]
        /\ roomOf = [c \in Clients |-> IF c \in M THEN 1 ELSE NoRoom]
        /\ pending = [c \in Clients |-> NoMsg]
        /\ sends = 0
        /\ enq = [r \in RoomIds |-> 0]
        /\ deq = [r \in RoomIds |-> 0]
        /\ sent = [c \in Clients |-> 0]
        /\ req = [c \in Clients |-> ProxiedRequest]
        /\ admin = AdminIdle

\* The clients send texts and leave, cs.removeClient is called, and the
\* room's goroutine runs.
RemoveNext ==
    \/ \E c \in Clients : RemoveClient(c)
    \/ \E c \in Clients : Disconnect(c)
    \/ \E c \in Clients, text \in Texts : ReadText(c, text)
    \/ \E c \in Clients : Submit(c)
    \/ \E c \in Clients : LeaveSend(c)
    \/ \E c \in Clients : NumClients(c)
    \/ \E c \in Clients : QuitSend(c)
    \/ \E r \in RoomIds : Receive(r)
    \/ \E r \in RoomIds : WaitDone(r)
    \/ \E r \in RoomIds : Refill(r)
    \/ \E r \in RoomIds : HandleMsg(r)
    \/ \E r \in RoomIds : Broadcast(r)

RemoveSpec == RemoveInit /\ [][RemoveNext]_vars

\* ------------------------------------------------ admissions to a room

\* The connections of the admissions: one more than Clients, so that a
\* client can be admitted to a room where two nicknames are taken.
NickConns == Clients \cup {"c3"}

\* Nicknames the clients of the room have when a client is admitted.
TakenPool == NickPool \cup {<<"A", "3">>}

\* The server with no room, or with one room whose clients S are in the
\* loop of connect with nicknames of TakenPool; the other connections are
\* about to be admitted.
NickInit ==
    \E S \in SUBSET NickConns :
        /\ rooms = [i \in Keys |-> IF i \in IPs /\ S # {} THEN 1 ELSE NoRoom]
        /\ roomsMu = Free
        /\ created = IF S # {} THEN 1 ELSE 0
        /\ incoming = [r \in RoomIds |-> <<>>]
        /\ members = [r \in RoomIds |-> IF r = 1 THEN S ELSE {}]
        /\ clientsMu = [r \in RoomIds |-> Free]
        /\ whenLastMsg = [r \in RoomIds |-> 0]
        /\ tokens = [r \in RoomIds |-> limiterBurst]
        /\ rpc = [r \in RoomIds |-> IF r = 1 /\ S # {} THEN "select" ELSE "none"]
        /\ cur = [r \in RoomIds |-> NoCur]
        /\ nick \in {f \in [NickConns -> TakenPool \cup {<<>>}] :
                       /\ \A c \in NickConns : f[c] = <<>> <=> c \notin S
                       /\ \A c, d \in S : c # d => f[c] # f[d]}
        /\ unsynced = [c \in NickConns |-> <<>>]
        /\ outgoing = [c \in NickConns |-> <<>>]
        /\ closeSlowCalls = [c \in NickConns |-> 0]
        /\ pc = [c \in NickConns |-> IF c \in S THEN "loop" ELSE "addClient"]
        /\ ipOf = [c \in NickConns |-> CHOOSE i \in IPs : TRUE]
        /\ roomOf = [c \in NickConns |-> IF c \in S THEN 1 ELSE NoRoom]
        /\ pending = [c \in NickConns |-> NoMsg]
        /\ sends = 0
        /\ enq = [r \in RoomIds |-> 0]
        /\ deq = [r \in RoomIds |-> 0]
        /\ sent = [c \in NickConns |-> 0]
        /\ req = [c \in NickConns |-> ProxiedRequest]
        /\ admin = AdminIdle

\* Connections are admitted, one after the other.
NickNext ==
    \/ \E c \in NickConns, ip \in IPs : AddClient(c, ip)
    \/ \E c \in NickConns : RoomNameSend(c)

NickSpec == NickInit /\ [][NickNext]_vars

\* ------------------------------------------- admissions and removals

\* Connections are admitted and leave, and the goroutine of the room handles
\* their join and leave msgs.
\* newChatRoom makes at most as many rooms as RoomIds has identifiers.
Admit(c, ip) == RoomFor(ip) \in RoomIds /\ AddClient(c, ip)

MemberNext ==
    \/ \E c \in NickConns, ip \in IPs : Admit(c, ip)
    \/ \E c \in NickConns : JoinSend(c)
    \/ \E c \in NickConns : RoomNameSend(c)
    \/ \E c \in NickConns : Disconnect(c)
    \/ \E c \in NickConns : RemoveClient(c)
    \/ \E c \in NickConns : LeaveSend(c)
    \/ \E c \in NickConns : NumClients(c)
    \/ \E c \in NickConns : QuitSend(c)
    \/ \E r \in RoomIds : Receive(r)
    \/ \E r \in RoomIds : WaitDone(r)
    \/ \E r \in RoomIds : Refill(r)
    \/ \E r \in RoomIds : HandleMsg(r)
    \/ \E r \in RoomIds : Broadcast(r)

MemberSpec == NickInit /\ [][MemberNext]_vars

\* ------------------------------------------------------- the limiter

\* The server without the writes to the websockets and the admin requests.
LimiterNext ==
    \/ \E c \in Clients, ip \in IPs : AddClient(c, ip)
    \/ \E c \in Clients : JoinSend(c)
    \/ \E c \in Clients : RoomNameSend(c)
    \/ \E c \in Clients, text \in Texts : ReadText(c, text)
    \/ \E c \in Clients : Submit(c)
    \/ \E c \in Clients : Disconnect(c)
    \/ \E c \in Clients : RemoveClient(c)
    \/ \E c \in Clients : LeaveSend(c)
    \/ \E c \in Clients : NumClients(c)
    \/ \E c \in Clients : QuitSend(c)
    \/ \E r \in RoomIds : Receive(r)
    \/ \E r \in RoomIds : WaitDone(r)
    \/ \E r \in RoomIds : Refill(r)
    \/ \E r \in RoomIds : HandleMsg(r)
    \/ \E r \in RoomIds : Broadcast(r)

LimiterSpec == Init /\ [][LimiterNext]_vars

\* ------------------------------------- the server and its connections

\* The text the websockets deliver here: a chat line.  The forms of texts
\* handleMsg tells apart are those of Texts and RoomTexts.
ChatTexts == { <<"h", "i">> }

\* The server without the requests for the admin data: roomsMu is held by
\* the calls of cs.addClient and cs.removeClient only.
ChatNext ==
    \/ \E c \in Clients, ip \in IPs : AddClient(c, ip)
    \/ \E c \in Clients : JoinSend(c)
    \/ \E c \in Clients : RoomNameSend(c)
    \/ \E c \in Clients : ReceiveOutgoing(c)
    \/ \E c \in Clients : WriteOut(c)
    \/ \E c \in Clients, text \in ChatTexts : ReadText(c, text)
    \/ \E c \in Clients : Submit(c)
    \/ \E c \in Clients : Disconnect(c)
    \/ \E c \in Clients : RemoveClient(c)
    \/ \E c \in Clients : LeaveSend(c)
    \/ \E c \in Clients : NumClients(c)
    \/ \E c \in Clients : QuitSend(c)
    \/ \E r \in RoomIds : Receive(r)
    \/ \E r \in RoomIds : WaitDone(r)
    \/ \E r \in RoomIds : Refill(r)
    \/ \E r \in RoomIds : HandleMsg(r)
    \/ \E r \in RoomIds : Broadcast(r)

ChatSpec == Init /\ [][ChatNext]_vars

\* ------------------------------------------------- the admin data

\* The server with the requests for the admin data, without the writes to
\* the websockets.
AdminNext ==
    \/ \E c \in Clients, ip \in IPs : AddClient(c, ip)
    \/ \E c \in Clients : JoinSend(c)
    \/ \E c \in Clients : RoomNameSend(c)
    \/ \E c \in Clients, text \in Texts : ReadText(c, text)
    \/ \E c \in Clients : Submit(c)
    \/ \E c \in Clients : Disconnect(c)
    \/ \E c \in Clients : RemoveClient(c)
    \/ \E c \in Clients : LeaveSend(c)
    \/ \E c \in Clients : NumClients(c)
    \/ \E c \in Clients : QuitSend(c)
    \/ \E r \in RoomIds : Receive(r)
    \/ \E r \in RoomIds : WaitDone(r)
    \/ \E r \in RoomIds : Refill(r)
    \/ \E r \in RoomIds : HandleMsg(r)
    \/ \E r \in RoomIds : Broadcast(r)
    \/ AdminForbidden
    \/ AdminLock
    \/ AdminData
    \/ AdminFlush

AdminSpec == Init /\ [][AdminNext]_vars

\* ------------------------------------------------- requests and their keys

\* Keys of cs.rooms for the requests of Requests.
RequestKeys == Keys \cup {getIPString(r) : r \in Requests}

\* The server as newChatServer returns it, with connections whose requests
\* are any of Requests.
KeyInit ==
    /\ rooms = [i \in RequestKeys |-> NoRoom]
    /\ roomsMu = Free
    /\ created = 0
    /\ incoming = [r \in RoomIds |-> <<>>]
    /\ members = [r \in RoomIds |-> {}]
    /\ clientsMu = [r \in RoomIds |-> Free]
    /\ whenLastMsg = [r \in RoomIds |-> 0]
    /\ tokens = [r \in RoomIds |-> limiterBurst]
    /\ rpc = [r \in RoomIds |-> "none"]
    /\ cur = [r \in RoomIds |-> NoCur]
    /\ nick = [c \in Clients |-> <<>>]
    /\ unsynced = [c \in Clients |-> <<>>]
    /\ outgoing = [c \in Clients |-> <<>>]
    /\ closeSlowCalls = [c \in Clients |-> 0]
    /\ pc = [c \in Clients |-> "addClient"]
    /\ ipOf = [c \in Clients |-> CHOOSE i \in IPs : TRUE]
    /\ roomOf = [c \in Clients |-> NoRoom]
    /\ pending = [c \in Clients |-> NoMsg]
    /\ sends = 0
    /\ enq = [r \in RoomIds |-> 0]
    /\ deq = [r \in RoomIds |-> 0]
    /\ sent = [c \in Clients |-> 0]
    /\ req \in [Clients -> Requests]
    /\ admin = AdminIdle

\* connectHandler, line 308: connect is called with what getIPString makes
\* of the request.
Connect(c) == AddClient(c, getIPString(req[c]))

\* Connections are admitted, one after the other.
KeyNext ==
    \/ \E c \in Clients : Connect(c)
    \/ \E c \in Clients : RoomNameSend(c)

KeySpec == KeyInit /\ [][KeyNext]_vars

\* ------------------------------------------------------------- scheduling

\* Positions of the goroutine of a room: not started, at the select of
\* start, in limiter.Wait, at the Lock of handleMsg, at the Lock of the loop,
\* returned.
RpcStates == {"none", "select", "wait", "handle", "bcast", "stopped"}

\* The goroutine of r can take a step: a msg is on incoming for its select,
\* the bucket has a token for its limiter.Wait, or clientsMu is free for the
\* Lock it is at.  These are the guards of Receive, WaitDone, HandleMsg and
\* Broadcast.
StartReady(r) ==
    \/ rpc[r] = "select" /\ incoming[r] # <<>>
    \/ rpc[r] = "wait" /\ tokens[r] > 0
    \/ rpc[r] = "handle" /\ clientsMu[r] = Free
    \/ rpc[r] = "bcast" /\ clientsMu[r] = Free

\* A step of the goroutine of r, by what it does to its position: Receive,
\* WaitDone, HandleMsg and Broadcast each change rpc[r], and no step of another
\* goroutine changes it while start can go on except the receive from quit.
StartMoves(r) ==
    /\ StartReady(r)
    /\ rpc' \in [RoomIds -> RpcStates]
    /\ rpc'[r] # rpc[r]

\* The goroutine of a room that can take a step takes one: limiter.Wait
\* returns, a free mutex is locked, the loop of start goes on.
StartFair == \A r \in RoomIds : WF_rpc(StartMoves(r))

\* Time passes: a bucket that is not full gains its next token.
TimeFair == \A r \in RoomIds : WF_vars(Refill(r))

\* A send on quit that start can receive completes.
QuitFair == \A c \in Clients : WF_vars(QuitSend(c))

\* The calls of cs.removeClient with the scheduler of the goroutines.
RemoveFairSpec == RemoveSpec /\ StartFair /\ TimeFair /\ QuitFair

\* A call of cs.addClient or cs.removeClient that can go on goes on: a send
\* on a channel with space or with a receiver completes, a free mutex is
\* locked.
CallsFair ==
    \A c \in Clients :
        /\ WF_vars(JoinSend(c))
        /\ WF_vars(RoomNameSend(c))
        /\ WF_vars(Submit(c))
        /\ WF_vars(RemoveClient(c))
        /\ WF_vars(LeaveSend(c))
        /\ WF_vars(NumClients(c))
        /\ WF_vars(WriteOut(c))

\* closeSlow closed the connection of c, so the context of connect is done
\* and its loop, at the select, returns.
ClosedFair == \A c \in Clients : WF_vars(closeSlowCalls[c] > 0 /\ Disconnect(c))

\* The server with the scheduler of the goroutines.
FairSpec == ChatSpec /\ StartFair /\ TimeFair /\ QuitFair /\ CallsFair /\ ClosedFair

\* ------------------------------------------------------------------ properties

\* The step is the handleMsg call of room r's start.
HandleMsgStep(r) == rpc[r] = "handle" /\ rpc'[r] # "handle"

\* The step is the loop over the clients of room r's start.
BroadcastStep(r) == rpc[r] = "bcast" /\ rpc'[r] # "bcast"

\* The nickname a /nick request m asks for.
RequestedNick(m) == sanitizeNick(SubSeq(m.text, Len(NickCmd) + 1, Len(m.text)))

\* m is a /nick request that room r must reject: the nickname is empty, or a
\* client of the room has it.
MustReject(r, m) ==
    /\ m.raw = <<>>
    /\ IsNickRequest(m.text)
    /\ \/ RequestedNick(m) = <<>>
       \/ \E c \in members[r] : nick[c] = RequestedNick(m)

\* The two error notices of handleMsg.
EmptyNickNotice == createSpecialMsg(<<"Nickname cannot be empty">>, "error", 0)
NickInUseNotice == createSpecialMsg(<<"That nickname is already in use">>, "error", 0)

\* C1: no two clients that are in a room at the same time have the same
\* nickname, whether getNewNick gave it at admission or a /nick request set
\* it.
NickUnique ==
    \A r \in RoomIds : \A c, d \in members[r] : c # d => nick[c] # nick[d]

\* C1 happens: the first client renamed itself A2 and the second, admitted to
\* the same room afterwards, was given A.
NickUniqueWitness ==
    /\ \E r \in RoomIds : members[r] = Clients
    /\ nick["c1"] = <<"A", "2">>
    /\ nick["c2"] = <<"A">>

\* C2: whenever no cs.addClient or cs.removeClient call holds roomsMu, an
\* ip is in cs.rooms exactly when its room has a client, and the room of a
\* client whose removal returned and left it empty is not in cs.rooms; so
\* the data adminDataHandler has buffered counts the rooms that have
\* clients and lists, per key of cs.rooms, a room with its chatters, never
\* none.
RegistryIffMembers ==
    /\ roomsMu \in {Free, "admin"} =>
          /\ \A ip \in DOMAIN rooms : rooms[ip] # NoRoom => members[rooms[ip]] # {}
          /\ \A r \in RoomIds :
               members[r] # {} => \E ip \in DOMAIN rooms : rooms[ip] = r
          /\ \A c \in DOMAIN pc :
               pc[c] = "done" /\ members[roomOf[c]] = {} => rooms[ipOf[c]] # roomOf[c]
    /\ admin.at = "flush" =>
          /\ admin.out.status = 200
          /\ admin.out.rooms = Cardinality({r \in RoomIds : members[r] # {}})
          /\ Cardinality(admin.out.list) = admin.out.rooms
          /\ \A e \in admin.out.list :
               /\ rooms[e.ip] # NoRoom
               /\ e.chatters = Cardinality(members[rooms[e.ip]])
               /\ e.chatters > 0

\* C2 happens: the first room lost its only client and left cs.rooms, a
\* second one was made, and adminDataHandler has listed it with its one
\* chatter.
RegistryIffMembersWitness ==
    /\ admin.at = "flush"
    /\ created = 2
    /\ \E c \in DOMAIN pc : pc[c] = "done"
    /\ admin.out.rooms = 1
    /\ \E e \in admin.out.list : e.ip = <<"ip1">> /\ e.chatters = 1

\* C3: as long as no client has been removed, the cs.addClient calls, which
\* all start together, have made one room per ip that was admitted, with one
\* goroutine each, and every admitted client is in the room of its ip.
OneRoomPerKey ==
    (\A c \in Clients : pc[c] \in {"addClient", "join", "roomname", "loop",
                                   "write", "submit", "removeClient"}) =>
        /\ created = Cardinality({ipOf[c] : c \in {d \in Clients : pc[d] # "addClient"}})
        /\ Cardinality({r \in RoomIds : rpc[r] # "none"}) = created
        /\ \A c \in Clients :
             pc[c] # "addClient" =>
                 /\ rooms[ipOf[c]] # NoRoom
                 /\ roomOf[c] = rooms[ipOf[c]]
                 /\ c \in members[rooms[ipOf[c]]]

\* C3 happens: every client has been admitted for the same ip, none has
\* been removed, and they are all in the one room that was made.
OneRoomPerKeyWitness ==
    /\ \A c \in Clients : pc[c] \in {"roomname", "loop", "write"}
    /\ \E c \in Clients : pc[c] = "write"
    /\ created = 1
    /\ members[1] = Clients

\* What a step may do to incoming, to start's m and to the clients' outgoing.
FifoStep ==
    /\ \A r \in RoomIds :
         deq'[r] # deq[r] =>
             /\ incoming[r] # <<>>
             /\ cur'[r].m = Head(incoming[r])
             /\ cur'[r].m.id = deq[r] + 1
             /\ deq'[r] = deq[r] + 1
             /\ incoming'[r] = Tail(incoming[r])
    /\ \A r \in RoomIds :
         enq'[r] # enq[r] =>
             /\ enq'[r] = enq[r] + 1
             /\ Len(incoming'[r]) = Len(incoming[r]) + 1
             /\ SubSeq(incoming'[r], 1, Len(incoming[r])) = incoming[r]
             /\ incoming'[r][Len(incoming'[r])].id = enq'[r]
    /\ \A c \in Clients :
         sent'[c] # sent[c] /\ sent'[c] # 0 =>
             /\ sent'[c] > sent[c]
             /\ \E r \in RoomIds : BroadcastStep(r) /\ cur[r].m.id = sent'[c]
             /\ Len(outgoing'[c]) = Len(outgoing[c]) + 1
             /\ SubSeq(outgoing'[c], 1, Len(outgoing[c])) = outgoing[c]

\* C4: start receives the msgs of a room in the order of the sends on
\* incoming, each send puts its msg behind those that wait, and what the
\* loop puts on a client's outgoing goes behind what is there, for msgs of
\* increasing place in that order.
FifoOrder == [][FifoStep]_vars

\* C4 happens: a client holds the texts of the two msgs handled last, in
\* their order, while two more msgs wait on incoming.
FifoOrderWitness ==
    \E r \in RoomIds :
        /\ Len(incoming[r]) = 2
        /\ deq[r] >= 2
        /\ \E c \in members[r] : pc[c] = "loop" /\ sent[c] = deq[r] /\ Len(outgoing[c]) = 2

\* C5 as the spec states it: the text of a chat line shows the nickname its
\* author has when the line is handled, hence the new one once a /nick
\* request sent earlier has been accepted.  The program renders the
\* nickname connect read when it sent the line.
ChatShowsCurrentNick ==
    \A r \in RoomIds :
        (rpc[r] = "bcast" /\ cur[r].m.raw = <<>> /\ ~IsNickRequest(cur[r].m.text)) =>
            cur[r].res.chatMsg[1].nick = nick[cur[r].m.author]

\* What a step that is the loop of start does.
BroadcastIsolatedStep ==
    \A r \in RoomIds :
        BroadcastStep(r) =>
            /\ rpc'[r] = "select"
            /\ \A c \in members[r] :
                 OutgoingHasSpace(outgoing[c]) =>
                     /\ Len(outgoing'[c]) = Len(outgoing[c]) + 1
                     /\ SubSeq(outgoing'[c], 1, Len(outgoing[c])) = outgoing[c]
                     /\ Receiving(c) =>
                            outgoing'[c][Len(outgoing'[c])] = BroadcastText(r, c)

\* C6: the loop of start puts the text on the outgoing of every client of
\* the room that has space, whatever the other clients' channels hold, and
\* start is back at its select.
BroadcastIsolated == [][BroadcastIsolatedStep]_vars

\* C6 happens: a client's outgoing is full and closeSlow was started for it,
\* another client of the room got a later text than it did, and start is at
\* its select.
BroadcastIsolatedWitness ==
    \E r \in RoomIds : \E c, d \in members[r] :
        /\ rpc[r] = "select"
        /\ pc[c] = "loop" /\ pc[d] = "loop"
        /\ Len(outgoing[c]) = clientMsgBuffer
        /\ closeSlowCalls[c] > 0
        /\ sent[c] > 0
        /\ sent[d] > sent[c]

\* C7: closeSlow, the overflow action of a client, is started at most once
\* for the client, however many calls of sendText find its outgoing full.
CloseSlowAtMostOnce == \A c \in Clients : closeSlowCalls[c] <= 1

\* C8 as the spec states it: nothing waits for space on a client's outgoing;
\* cs.addClient, at the send of the room name, finds space.
RoomNameNeverWaits ==
    \A c \in Clients : pc[c] = "roomname" => OutgoingHasSpace(outgoing[c])

\* The msgs on incoming are those sent and not yet received, each once and
\* in the order of the sends, no more than serverMsgBuffer of them, and a
\* send that waits for space keeps its msg.
IncomingKept ==
    /\ \A r \in RoomIds :
         /\ Len(incoming[r]) <= serverMsgBuffer
         /\ enq[r] = deq[r] + Len(incoming[r])
         /\ \A i \in 1..Len(incoming[r]) : incoming[r][i].id = deq[r] + i
    /\ \A c \in Clients :
         pc[c] \in {"join", "submit", "leave"} <=> pending[c] # NoMsg
    /\ \A c \in Clients : pc[c] = "submit" => pending[c].author = c

\* C9: no msg sent on incoming is dropped: incoming never holds more than
\* serverMsgBuffer msgs, a send that finds it full waits and keeps its msg,
\* and every msg sent on incoming is received by start, once, unless start
\* has returned first.
InboundNeverDrops ==
    /\ []IncomingKept
    /\ \A r \in RoomIds : \A n \in 1..(MaxSends + 2 * Cardinality(Clients)) :
         (enq[r] >= n) ~> (deq[r] >= n \/ rpc[r] = "stopped")

\* What a step that rejects a /nick request does.
RejectedNickStep ==
    \A r \in RoomIds :
        (HandleMsgStep(r) /\ MustReject(r, cur[r].m)) =>
            LET a == cur[r].m.author
                notice == IF RequestedNick(cur[r].m) = <<>>
                          THEN EmptyNickNotice ELSE NickInUseNotice
            IN  /\ nick' = nick
                /\ rpc'[r] = "select"
                /\ cur'[r] = NoCur
                /\ \A c \in Clients \ {a} :
                     outgoing'[c] = outgoing[c] /\ closeSlowCalls'[c] = closeSlowCalls[c]
                /\ outgoing'[a] =
                     IF OutgoingHasSpace(outgoing[a])
                     THEN Append(outgoing[a], IF Receiving(a) THEN notice ELSE Unread)
                     ELSE outgoing[a]

\* C10: when handleMsg gets a /nick request whose nickname is empty or is
\* that of a client of the room, no nickname changes, start has nothing to
\* send and is back at its select, no other client's outgoing changes, and
\* the author's outgoing gets the one error notice if it has space.
RejectedNickIsPrivate == [][RejectedNickStep]_vars

\* C10 happens: a client holds the two error notices, for an empty nickname
\* and for one in use, and still has the nickname it was given.
RejectedNickIsPrivateWitness ==
    \E c \in Clients :
        /\ pc[c] = "loop"
        /\ nick[c] = <<"A">>
        /\ \E i, j \in 1..Len(outgoing[c]) :
             outgoing[c][i] = EmptyNickNotice /\ outgoing[c][j] = NickInUseNotice

\* m is a /nick request that room r accepts: the nickname is not empty and
\* no client of the room has it.
MustAccept(r, m) ==
    /\ m.raw = <<>>
    /\ IsNickRequest(m.text)
    /\ RequestedNick(m) # <<>>
    /\ \A c \in members[r] : nick[c] # RequestedNick(m)

\* The sequence of strings l is in the order of sort.Strings.
IsSorted(l) == \A i, j \in 1..Len(l) : i < j => ~StrLess(l[j], l[i])

\* What a step that accepts a /nick request does, and what the loop of start
\* then does with its result.
RenameStep ==
    \A r \in RoomIds :
        /\ (HandleMsgStep(r) /\ MustAccept(r, cur[r].m)) =>
              LET a == cur[r].m.author
                  n == RequestedNick(cur[r].m)
                  html == cur'[r].res.chatMsg
              IN  /\ nick'[a] = n
                  /\ \A c \in Clients \ {a} : nick'[c] = nick[c]
                  /\ outgoing' = outgoing
                  /\ rpc'[r] = "bcast"
                  /\ cur'[r].res.authorMsg = html
                  /\ Len(html) = 2
                  /\ html[1] = [tag |-> "special", ts |-> now, class |-> "notif",
                                text |-> EscapeString(nick[a] \o <<" is now known as ">> \o n)]
                  /\ html[2].tag = "users-list"
                  /\ html[2].count = Cardinality(members[r])
                  /\ Len(html[2].nicks) = Cardinality(members[r])
                  /\ \A c \in members[r] :
                       \E i \in 1..Len(html[2].nicks) : html[2].nicks[i] = nick'[c]
                  /\ IsSorted(html[2].nicks)
        /\ (BroadcastStep(r) /\ cur[r].m.raw = <<>> /\ IsNickRequest(cur[r].m.text)) =>
              \A c \in members[r] :
                  (OutgoingHasSpace(outgoing[c]) /\ Receiving(c)) =>
                      outgoing'[c] = Append(outgoing[c],
                          IF c = cur[r].m.author
                          THEN cur[r].res.chatMsg \o clearInputFieldMsg
                          ELSE cur[r].res.chatMsg)

\* C11: when handleMsg gets a /nick request whose nickname is not empty and
\* not that of a client of the room, the author gets the nickname, no other
\* nickname changes, and the result is the notice of the change followed by
\* the list of the room's nicknames after the change, sorted; the loop of
\* start then puts it on the outgoing of every client of the room that has
\* space.
RenameBroadcast == [][RenameStep]_vars

\* C11 happens: in a room of two, a client became B and the other client
\* holds the notice with the list of both nicknames.
RenameBroadcastWitness ==
    \E c \in Clients : \E d \in Clients \ {c} :
        /\ nick[c] = <<"B">>
        /\ members[1] = {c, d}
        /\ \E i \in 1..Len(outgoing[d]) :
             /\ Len(outgoing[d][i]) = 2
             /\ outgoing[d][i][1].tag = "special"
             /\ outgoing[d][i][2].tag = "users-list"
             /\ outgoing[d][i][2].nicks = <<nick[d], <<"B">>>>

\* m is a chat line: a text of a client that is not a /nick request.
IsChat(m) == m.raw = <<>> /\ ~IsNickRequest(m.text)

\* m is a chat line with nothing in it but white space.
IsEmptyChat(m) == IsChat(m) /\ TrimSpace(ToValidUTF8(m.text)) = <<>>

\* Handling a blank chat line takes start back to its select with no text
\* sent and no client closed.
EmptyChatStep ==
    \A r \in RoomIds :
        (HandleMsgStep(r) /\ IsEmptyChat(cur[r].m)) =>
            /\ outgoing' = outgoing
            /\ closeSlowCalls' = closeSlowCalls
            /\ rpc'[r] = "select"
            /\ cur'[r] = NoCur

\* C12: a chat line whose text is empty once normalized is dropped: handling
\* it puts nothing on the outgoing of any client, the author included, and
\* no broadcast of it follows.
EmptyChatDropped == [][EmptyChatStep]_vars

\* C12 happens: the one text sent was handled and start is back at its
\* select with nothing on any outgoing; a chat line with content, a rename
\* and a rejected /nick each put a text on an outgoing.
EmptyChatDroppedWitness ==
    /\ sends = 1
    /\ deq[1] = 1
    /\ rpc[1] = "select"
    /\ \A c \in Clients : outgoing[c] = <<>> /\ closeSlowCalls[c] = 0

\* C13: whenLastMsg of a room changes only in a step that handles a chat
\* line that is rendered and then broadcast.  handleMsg sets it before
\* createChatMsg looks at the text, so a blank chat line changes it too.
LastMsgOnlyOnRenderedChat ==
    [][\A r \in RoomIds :
          whenLastMsg'[r] # whenLastMsg[r] =>
              /\ HandleMsgStep(r)
              /\ IsChat(cur[r].m)
              /\ rpc'[r] = "bcast"]_vars

\* The text s holds the element that resets the input field.
HasInputReset(s) == \E i \in 1..Len(s) : s[i].tag = "input"

\* What each client with space on its outgoing gets from one pass of the
\* loop of start.
AuthorStep ==
    \A r \in RoomIds :
        BroadcastStep(r) =>
            \A c \in members[r] :
                (OutgoingHasSpace(outgoing[c]) /\ Receiving(c)) =>
                    LET m == cur[r].m
                        got == outgoing'[c][Len(outgoing'[c])]
                    IN  /\ Len(outgoing'[c]) = Len(outgoing[c]) + 1
                        /\ IF m.raw # <<>>
                           THEN got = m.raw /\ ~HasInputReset(got)
                           ELSE IF c = m.author
                           THEN /\ got = cur[r].res.authorMsg \o clearInputFieldMsg
                                /\ IsChat(m) => got[1] = createChatMsg(m)[1][1] /\ got[1].class = "my"
                           ELSE /\ got = cur[r].res.chatMsg
                                /\ ~HasInputReset(got)
                                /\ IsChat(m) => got[1] = createChatMsg(m)[2][1] /\ got[1].class = ""

\* C14: when the loop of start sends the result of a msg of a client, the
\* author gets the author's text followed by the input reset and every other
\* client of the room gets the other text, without it; when it sends a join
\* or leave msg, every client gets the msg's text as it is, with no input
\* reset.
AuthorGetsInputReset == [][AuthorStep]_vars

\* C14 happens: a client holds its own chat line with the input reset while
\* another client holds a chat line as the others see it, without the reset.
AuthorGetsInputResetWitness ==
    \E c \in Clients : \E d \in Clients \ {c} :
        /\ \E i \in 1..Len(outgoing[c]) :
             /\ outgoing[c][i][1].tag = "tr"
             /\ outgoing[c][i][1].class = "my"
             /\ HasInputReset(outgoing[c][i])
        /\ \E j \in 1..Len(outgoing[d]) :
             /\ outgoing[d][j][1].tag = "tr"
             /\ outgoing[d][j][1].class = ""
             /\ ~HasInputReset(outgoing[d][j])

\* A call of cs.removeClient whose key has no room returns and changes
\* nothing of the server but the caller's position.
RemoveMissingStep ==
    \A c \in Clients :
        (pc[c] = "removeClient" /\ pc'[c] # "removeClient" /\ rooms[ipOf[c]] = NoRoom) =>
            /\ pc'[c] = "done"
            /\ roomsMu' = Free
            /\ UNCHANGED <<rooms, created, incoming, members, clientsMu, whenLastMsg,
                           rpc, cur, nick, outgoing, closeSlowCalls, pending>>

\* C15: cs.removeClient called with a key that has no room in cs.rooms
\* returns with cs.rooms, the clients and the incoming of every room, and the
\* goroutine of every room as they were.
RemoveMissingIsNoOp == [][RemoveMissingStep]_vars

\* C15 happens: a call with the key that has no room has returned while
\* the room of the other key has a client and a msg on its incoming.
RemoveMissingIsNoOpWitness ==
    \E c \in Clients :
        /\ pc[c] = "done"
        /\ ipOf[c] = <<"ip0">>
        /\ rooms[<<"ip0">>] = NoRoom
        /\ \E k \in IPs : rooms[k] # NoRoom /\ members[rooms[k]] # {}
                          /\ incoming[rooms[k]] # <<>>

\* Room r was made and has lost all its clients.
Drained(r) == r <= created /\ members[r] = {}

\* A room without clients stays without clients; it is in cs.rooms only
\* while the cs.removeClient call that took its last client holds roomsMu,
\* before room.numClients(), and once out it does not come back; its
\* goroutine puts no text on the outgoing of a client of another room, and
\* an admission under a key with no room makes a room whose incoming holds
\* the join msg of that admission and nothing else.
DrainedStep ==
    /\ \A r \in RoomIds :
         Drained(r) =>
            /\ members'[r] = {}
            /\ \A k \in Keys :
                 rooms[k] = r =>
                    \E c \in Clients :
                        pc[c] = "numClients" /\ roomOf[c] = r /\ roomsMu = c
            /\ \A k \in Keys : rooms'[k] = r => rooms[k] = r
            /\ (rpc'[r] # rpc[r] \/ cur'[r] # cur[r]) =>
                  \A c \in Clients : roomOf[c] # r => outgoing'[c] = outgoing[c]
    /\ \A k \in Keys :
         (rooms[k] = NoRoom /\ rooms'[k] # NoRoom) =>
            /\ rooms'[k] = created + 1
            /\ created' = created + 1
            /\ incoming[rooms'[k]] = <<>>
            /\ Cardinality(members'[rooms'[k]]) = 1
            /\ Len(incoming'[rooms'[k]]) = 1
            /\ incoming'[rooms'[k]][1].raw # <<>>

\* C16: a room whose clients have all left is never used again: no client
\* enters it, it does not come back into cs.rooms, and the next admission
\* under its key makes a new room with an incoming of its own, so that what
\* was left on the old incoming reaches no client of the new room.
DrainedRoomNeverReused == [][DrainedStep]_vars

\* C16 happens: the first room lost its clients with a msg left on its
\* incoming, and the key has a second room with a client.
DrainedRoomNeverReusedWitness ==
    /\ created = 2
    /\ Drained(1)
    /\ incoming[1] # <<>>
    /\ \E k \in IPs : rooms[k] = 2 /\ members[2] # {}

\* The goroutine of a room that has returned takes nothing more from
\* incoming and hands no text to a client.
StoppedStep ==
    \A r \in RoomIds :
        rpc[r] = "stopped" =>
            /\ rpc'[r] = "stopped"
            /\ cur'[r] = cur[r]
            /\ deq'[r] = deq[r]
            /\ incoming'[r] = incoming[r]
            /\ \A c \in Clients :
                 roomOf[c] = r => (outgoing'[c] = outgoing[c] \/ Len(outgoing'[c]) < Len(outgoing[c]))

\* C17: when cs.removeClient has removed the last client of a room, the room
\* is out of cs.rooms and the call is at the send on quit; start then
\* returns and the call returns; and once start has returned the room
\* hands no text to any client, whatever is left on its incoming.
QuitStopsRoom ==
    /\ [](\A c \in Clients :
            pc[c] = "quit" =>
                /\ members[roomOf[c]] = {}
                /\ \A k \in Keys : rooms[k] # roomOf[c])
    /\ \A c \in Clients :
         (pc[c] = "quit") ~>
             (pc[c] = "done" /\ roomOf[c] # NoRoom /\ rpc[roomOf[c]] = "stopped")
    /\ [][StoppedStep]_vars

\* C17 happens: the last client of a room is gone, start has returned and a
\* msg is left on the room's incoming.
QuitStopsRoomWitness ==
    \E c \in Clients :
        /\ pc[c] = "done"
        /\ roomOf[c] # NoRoom
        /\ rpc[roomOf[c]] = "stopped"
        /\ incoming[roomOf[c]] # <<>>

\* C18: a client whose outgoing overflowed leaves the clients of its room.
\* A client that cs.addClient holds at the send of the room name, its
\* outgoing full, stays there with roomsMu locked, so it never leaves.
OverflowEvicts ==
    \A c \in Clients :
        (closeSlowCalls[c] > 0 /\ roomOf[c] # NoRoom /\ c \in members[roomOf[c]])
            ~> (roomOf[c] # NoRoom /\ c \notin members[roomOf[c]])

\* The nicknames of the clients of room r.
InUse(r) == {nick[d] : d \in members[r]}

\* The nickname an admitted client gets: genNick's when no client of the room
\* has it, and else genNick's followed by the first of 2, 3, ... that gives
\* a nickname no client of the room has.
NewNickStep ==
    \A c \in NickConns :
        (pc[c] = "addClient" /\ pc'[c] # "addClient") =>
            LET r == roomOf'[c]
                taken == InUse(r)
            IN  /\ nick'[c] \notin taken
                /\ \E base \in GenNicks :
                     IF base \notin taken THEN nick'[c] = base
                     ELSE \E n \in 2..(Cardinality(taken) + 2) :
                            /\ nick'[c] = base \o Itoa(n)
                            /\ \A k \in 2..(n - 1) : (base \o Itoa(k)) \in taken

\* C19: getNewNick returns a nickname that no client of the room has: the
\* one genNick made when that is free, and else that one followed by the
\* smallest n >= 2 for which the result is free.
NewNickIsFirstFree == [][NewNickStep]_vars

\* C19 happens: a client was admitted as A2 to a room whose two clients are
\* A and A3.
NewNickIsFirstFreeWitness ==
    \E c \in NickConns :
        /\ pc[c] = "roomname"
        /\ nick[c] = <<"A", "2">>
        /\ {nick[d] : d \in members[1] \ {c}} = {<<"A">>, <<"A", "3">>}

\* The last address of the chain x of an X-Forwarded-For header: what
\* follows the last ", ".
LastHop(x) ==
    LET seps == {i \in 1..(Len(x) - 1) : x[i] = "," /\ x[i + 1] = " "}
    IN  IF seps = {} THEN x
        ELSE SubSeq(x, (CHOOSE i \in seps : \A j \in seps : j <= i) + 2, Len(x))

\* The peer address of request r, without its port.
PeerHost(r) == IF Len(r.remote) = 3 THEN <<r.remote[1]>> ELSE r.remote

\* C20: the key of a connection is the last address of the forwarded chain
\* when the request has the header; without the header it is "lan" for a
\* loopback or private peer and the peer address for any other.  getIPString
\* takes what strings.Split returns for the header, which has one element
\* for an empty string too, so without the header the key is the empty
\* string.
KeyFromRequest ==
    \A c \in Clients :
        pc[c] # "addClient" =>
            ipOf[c] = IF req[c].xff # <<>> THEN LastHop(req[c].xff)
                      ELSE IF PeerHost(req[c]) \in LoopbackIPs \cup PrivateIPs
                      THEN <<"lan">>
                      ELSE PeerHost(req[c])

\* C21: a call of cs.addClient or cs.removeClient does not hold roomsMu
\* while it waits for the goroutine of the room, at the send of the join or
\* leave msg on a full incoming or at the send on quit.  Both calls lock
\* roomsMu on entry and unlock it by defer, so they hold it at each of
\* these sends, and adminDataHandler and the calls for other keys wait.
RegistryLockFreeWhileWaiting ==
    \A c \in Clients : pc[c] \in {"join", "leave", "quit"} => roomsMu # c


\* m is a msg of the room itself whose raw is the notice text followed by
\* the list of users with the nicknames nk has for the clients S, in the
\* order of sort.Strings.
IsListNotice(m, text, nk, S) ==
    /\ m.author = NoClient
    /\ m.text = <<>>
    /\ Len(m.raw) = 2
    /\ m.raw[1] = [tag |-> "special", ts |-> m.when, class |-> "notif",
                   text |-> EscapeString(text)]
    /\ m.raw[2].tag = "users-list"
    /\ Len(m.raw[2].nicks) = Cardinality(S)
    /\ m.raw[2].count = Cardinality(S)
    /\ {m.raw[2].nicks[i] : i \in 1..Len(m.raw[2].nicks)} = {nk[d] : d \in S}
    /\ IsSorted(m.raw[2].nicks)

\* What the removal of a client from cr.clients does: only that client
\* leaves; when clients remain one leave msg with their sorted nicknames
\* goes to the back of incoming, or is held by the call while incoming is
\* full and goes to the back of incoming when the send completes; when none
\* remains nothing is sent.  The call then counts the clients: the room
\* without clients leaves cs.rooms and is told to quit, and otherwise the
\* call returns.
LeaveMsgStep ==
    /\ \A c \in NickConns : \A r \in RoomIds :
         (c \in members[r] /\ c \notin members'[r]) =>
            /\ members'[r] = members[r] \ {c}
            /\ \A q \in RoomIds \ {r} : incoming'[q] = incoming[q]
            /\ rooms' = rooms
            /\ IF members'[r] # {}
               THEN \/ /\ Len(incoming'[r]) = Len(incoming[r]) + 1
                       /\ SubSeq(incoming'[r], 1, Len(incoming[r])) = incoming[r]
                       /\ IsListNotice(incoming'[r][Len(incoming'[r])],
                                       nick[c] \o <<" has left">>, nick', members'[r])
                       /\ pending' = pending
                       /\ pc'[c] = "numClients"
                    \/ /\ Len(incoming[r]) = serverMsgBuffer
                       /\ incoming'[r] = incoming[r]
                       /\ IsListNotice(pending'[c],
                                       nick[c] \o <<" has left">>, nick', members'[r])
                       /\ pc'[c] = "leave"
               ELSE /\ incoming'[r] = incoming[r]
                    /\ pending' = pending
                    /\ pc'[c] = "numClients"
    /\ \A c \in NickConns :
         (pc[c] = "leave" /\ pc'[c] # "leave") =>
            LET r == roomOf[c]
            IN  /\ Len(incoming'[r]) = Len(incoming[r]) + 1
                /\ SubSeq(incoming'[r], 1, Len(incoming[r])) = incoming[r]
                /\ [incoming'[r][Len(incoming'[r])] EXCEPT !.id = 0] = pending[c]
                /\ \A q \in RoomIds \ {r} : incoming'[q] = incoming[q]
                /\ members' = members
                /\ pc'[c] = "numClients"
    /\ \A c \in NickConns :
         (pc[c] = "numClients" /\ pc'[c] # "numClients") =>
            LET r == roomOf[c]
            IN  /\ incoming' = incoming
                /\ members' = members
                /\ pending' = pending
                /\ IF members[r] = {}
                   THEN /\ \A k \in Keys : rooms'[k] # r
                        /\ pc'[c] = "quit"
                   ELSE /\ rooms' = rooms
                        /\ pc'[c] = "done"

\* C22: cr.removeClient deletes the client from cr.clients; when clients
\* remain it sends exactly one leave msg whose list of users is the sorted
\* nicknames of the clients that remain; when none remains it sends nothing
\* and the room is taken out of cs.rooms and told to quit.
LeaveMsgOnRemove == [][LeaveMsgStep]_vars

\* C22 happens: the client A3 left a room of three, and the leave msg with
\* the list A, B of the two clients that remain is on incoming.
LeaveMsgOnRemoveWitness ==
    /\ Cardinality(members[1]) = 2
    /\ \E i \in 1..Len(incoming[1]) :
         /\ Len(incoming[1][i].raw) = 2
         /\ incoming[1][i].raw[1].text = <<"A", "3", " has left">>
         /\ incoming[1][i].raw[2].nicks = <<<<"A">>, <<"B">>>>

\* What an admission does: the client gets a nickname no client of the room
\* has and enters cr.clients, and one join msg with the sorted nicknames of
\* the clients, the new one among them, goes to the back of incoming, or is
\* held by the call while incoming is full and goes to the back of incoming
\* when the send completes.  When the loop of start sends a join msg, the
\* client it names, if in the room, gets a call of sendText.
JoinMsgStep ==
    /\ \A c \in NickConns :
         (pc[c] = "addClient" /\ pc'[c] # "addClient") =>
            LET r == roomOf'[c]
            IN  /\ nick'[c] \notin InUse(r)
                /\ \A d \in NickConns \ {c} : nick'[d] = nick[d]
                /\ c \notin members[r]
                /\ members'[r] = members[r] \cup {c}
                /\ \A q \in RoomIds \ {r} :
                     incoming'[q] = incoming[q] /\ members'[q] = members[q]
                /\ \/ /\ Len(incoming'[r]) = Len(incoming[r]) + 1
                      /\ SubSeq(incoming'[r], 1, Len(incoming[r])) = incoming[r]
                      /\ IsListNotice(incoming'[r][Len(incoming'[r])],
                                      nick'[c] \o <<" has joined">>, nick', members'[r])
                      /\ pending' = pending
                      /\ pc'[c] = "roomname"
                   \/ /\ Len(incoming[r]) = serverMsgBuffer
                      /\ incoming'[r] = incoming[r]
                      /\ IsListNotice(pending'[c],
                                      nick'[c] \o <<" has joined">>, nick', members'[r])
                      /\ pc'[c] = "join"
    /\ \A c \in NickConns :
         (pc[c] = "join" /\ pc'[c] # "join") =>
            LET r == roomOf[c]
            IN  /\ Len(incoming'[r]) = Len(incoming[r]) + 1
                /\ SubSeq(incoming'[r], 1, Len(incoming[r])) = incoming[r]
                /\ [incoming'[r][Len(incoming'[r])] EXCEPT !.id = 0] = pending[c]
                /\ \A q \in RoomIds \ {r} : incoming'[q] = incoming[q]
                /\ members' = members
                /\ pc'[c] = "roomname"
    /\ \A r \in RoomIds : \A c \in members[r] :
         (/\ BroadcastStep(r)
          /\ Len(cur[r].m.raw) = 2
          /\ cur[r].m.raw[1].text = EscapeString(nick[c] \o <<" has joined">>)) =>
            IF OutgoingHasSpace(outgoing[c])
            THEN /\ Len(outgoing'[c]) = Len(outgoing[c]) + 1
                 /\ Receiving(c) => outgoing'[c][Len(outgoing'[c])] = cur[r].m.raw
            ELSE closeSlowCalls'[c] = closeSlowCalls[c] + 1

\* C23: cr.addClient gives the new client a nickname that no client of the
\* room has, puts it in cr.clients and sends exactly one join msg whose list
\* of users is the sorted nicknames of the clients, the new one among them;
\* when start later sends that msg to the clients, the new client, if still
\* in the room, is one of them.
JoinMsgOnAdmit == [][JoinMsgStep]_vars

\* C23 happens: a client was admitted as A2 to the room of A and B and holds
\* the join msg that names it, with the list A, A2, B.
JoinMsgOnAdmitWitness ==
    \E c \in NickConns :
        /\ c \in members[1]
        /\ nick[c] = <<"A", "2">>
        /\ \E i \in 1..Len(outgoing[c]) :
             /\ Len(outgoing[c][i]) = 2
             /\ outgoing[c][i][1].tag = "special"
             /\ outgoing[c][i][1].text = <<"A", "2", " has joined">>
             /\ outgoing[c][i][2].nicks = <<<<"A">>, <<"A", "2">>, <<"B">>>>

\* What the limiter does to the goroutine of a room: a msg received from
\* incoming, whatever it is, puts start at limiter.Wait; start goes on to
\* handleMsg only from there, with a token that was in the bucket of the
\* room and is taken from it; handleMsg and the loop over the clients run
\* on that msg and take no further token; the bucket holds at most
\* limiterBurst tokens and gains them one at a time, in steps in which no
\* msg is received or handled.
TokenStep ==
    \A r \in RoomIds :
        /\ tokens'[r] \in 0..limiterBurst
        /\ deq'[r] # deq[r] =>
              /\ deq'[r] = deq[r] + 1
              /\ cur'[r].m = Head(incoming[r])
              /\ rpc'[r] = "wait"
              /\ tokens' = tokens
        /\ (rpc[r] = "wait" /\ rpc'[r] # "wait") =>
              /\ rpc'[r] = "handle"
              /\ tokens[r] >= 1
              /\ tokens'[r] = tokens[r] - 1
              /\ \A q \in RoomIds \ {r} : tokens'[q] = tokens[q]
              /\ cur'[r] = cur[r]
        /\ (rpc'[r] = "handle" /\ rpc[r] # "handle") => rpc[r] = "wait"
        /\ (rpc'[r] = "bcast" /\ rpc[r] # "bcast") => rpc[r] = "handle"
        /\ (HandleMsgStep(r) \/ BroadcastStep(r)) =>
              /\ tokens' = tokens
              /\ deq' = deq
        /\ rpc[r] \in {"select", "wait"} =>
              /\ cur'[r].res = NoResult
              /\ whenLastMsg'[r] = whenLastMsg[r]
              /\ \A c \in members[r] :
                   /\ nick'[c] = nick[c]
                   /\ closeSlowCalls'[c] = closeSlowCalls[c]
        /\ tokens'[r] > tokens[r] =>
              /\ tokens'[r] = tokens[r] + 1
              /\ rpc' = rpc
              /\ cur' = cur
              /\ deq' = deq
              /\ outgoing' = outgoing

\* C24: start takes one token of the limiter for every msg it receives from
\* incoming, whatever the msg is and whoever sent it, and calls handleMsg
\* and sends to the clients only after limiter.Wait gave it that token; the
\* room has one bucket of at most limiterBurst tokens, so no more msgs than
\* the bucket held are handled before it gains a token.
TokenPerMsg == [][TokenStep]_vars

\* C24 happens: the bucket of the room is empty after an earlier msg, and
\* start has received a join or leave msg and is at limiter.Wait.
TokenPerMsgWitness ==
    \E r \in RoomIds :
        /\ rpc[r] = "wait"
        /\ tokens[r] = 0
        /\ deq[r] >= 2
        /\ cur[r].m.raw # <<>>

\* C25: no call of cr.addClient or cr.removeClient holds clientsMu while
\* its send of the join or leave msg waits on a full incoming and start,
\* having received a msg, waits for clientsMu in handleMsg or at its loop
\* over the clients; so every such call returns.
NoLockQueueDeadlock ==
    \A r \in RoomIds : \A c \in Clients :
        ~ /\ pc[c] \in {"join", "leave"}
          /\ roomOf[c] = r
          /\ clientsMu[r] = c
          /\ ~IncomingHasSpace(r)
          /\ rpc[r] \in {"handle", "bcast"}

\* The goroutine of r is at its select with nothing to receive, and no send
\* on incoming is waiting.
Idle(r) ==
    /\ rpc[r] = "select"
    /\ incoming[r] = <<>>
    /\ \A c \in Clients : roomOf[c] = r => pc[c] \notin {"join", "leave", "submit"}

\* The lists of users in the text s.
UserLists(s) == {s[i].nicks : i \in {j \in 1..Len(s) : s[j].tag = "users-list"}}

\* C26: whenever incoming is empty and start is at its select, the list of
\* users start sent last is the sorted nicknames of the clients of the room:
\* a client that missed no text and whose newest text carries a list of
\* users has the list of the room as it is; a join or leave msg sent before
\* a /nick request was handled does not bring the old nickname back.
UserListConverges ==
    \A r \in RoomIds : \A c \in members[r] :
        (/\ Idle(r)
         /\ pc[c] = "loop"
         /\ closeSlowCalls[c] = 0
         /\ outgoing[c] # <<>>) =>
            \A l \in UserLists(outgoing[c][Len(outgoing[c])]) :
                l = nicks(nick, members[r])
=============================================================================
